---- MODULE Spec2Model ----
(***************************************************************************)
(* xcresult-json: the parser registry (ParserRegistry, XCResultParser) and *)
(* the format parsers that turn raw xcresulttool JSON into a Report.       *)
(*                                                                         *)
(* Spec     : the registry state machine (register / parse / clear).       *)
(* SpecFmt  : the format parsers as functions of a bounded raw input.      *)
(***************************************************************************)
EXTENDS Integers, Sequences, FiniteSets, TLC

VARIABLES
    impl,        \* which object was constructed: "ParserRegistry" | "XCResultParser"
    parsers,     \* its private parsers: FormatParser[] field
    registered,  \* ghost: the parsers passed to register, in call order
    call,        \* the parse call in flight (position of the async function)
    input,       \* SpecFmt: the raw value handed to the format parsers
    output,      \* SpecFmt: what the last format-parser operation produced
    resultCache, \* the result cache: <<key, value>> entries in Map order
    cacheEnabled,\* the cacheEnabled flag (options.cache of a data source)
    pending,     \* the fetches in flight, each at one of its awaits
    completed    \* ghost: per request, the payload of its last successful
                 \* completion under caching, since the last clear

cacheVars == <<resultCache, cacheEnabled, pending, completed>>

vars == <<impl, parsers, registered, call, input, output,
          resultCache, cacheEnabled, pending, completed>>

\* ------------------------------------------------------------------ bounds
MaxParsers == 3      \* registrations per registry object
MaxKids    == 2      \* tests directly under one suite of a raw input
MaxPending == 2      \* fetches in flight at the same time

\* --------------------------------------------------------- parser objects
\* The three parsers of createFormatParsers() and one MockFormatParser of
\* the test-suite whose priority collides with one of them.
ParserPool == {"Xcode16FormatParser", "Xcode15FormatParser",
               "LegacyFormatParser", "MockFormatParser"}

createFormatParsers == <<"Xcode16FormatParser", "Xcode15FormatParser", "LegacyFormatParser">>

name(p) ==
    CASE p = "Xcode16FormatParser" -> "xcode16"
      [] p = "Xcode15FormatParser" -> "xcode15"
      [] p = "LegacyFormatParser"  -> "legacy"
      [] OTHER                     -> "parser1"

priorityClash(p) ==
    CASE p = "Xcode16FormatParser" -> 100
      [] p = "Xcode15FormatParser" -> 80
      [] p = "LegacyFormatParser"  -> 80
      [] OTHER                     -> 90

priority(p) ==
    CASE p = "Xcode16FormatParser" -> 100
      [] p = "Xcode15FormatParser" -> 90
      [] p = "LegacyFormatParser"  -> 80
      [] OTHER                     -> 90

\* What a parser does with the raw data of one parse call.
\*   reject         canParse returns false
\*   canParseThrows canParse throws
\*   acceptOk       canParse returns true, parse resolves with a Report
\*   acceptThrows   canParse returns true, parse rejects
Behaviours == {"reject", "canParseThrows", "acceptOk", "acceptThrows"}

\* The Error a parser throws (from canParse or from parse).
ParserError(p) ==
    [cls |-> "Error", code |-> "", message |-> <<"failure in ", name(p)>>,
     originalError |-> <<>>]

\* The Report a (mock) parser resolves with; `by` identifies the producer.
ReportOf(p) == [kind |-> "report", by |-> p]
Raise(e)    == [kind |-> "error", error |-> e]
Pending     == [kind |-> "pending"]

\* ------------------------------------------------------------ core/errors
invalidBundle(path) ==
    [cls |-> "XCResultError", code |-> "INVALID_BUNDLE",
     message |-> <<"Invalid xcresult bundle: ", path>>, originalError |-> <<>>]

xcresulttoolFailed(error) ==
    [cls |-> "XCResultError", code |-> "XCRESULTTOOL_FAILED",
     message |-> <<"xcresulttool execution failed: ">> \o error.message,
     originalError |-> <<error>>]

unsupportedFormat ==
    [cls |-> "XCResultError", code |-> "UNSUPPORTED_FORMAT",
     message |-> <<"Unsupported xcresult format. No parser could handle the data.">>,
     originalError |-> <<>>]

\* -------------------------------------------------- Array.prototype.sort
\* parsers.sort((a, b) => b.priority - a.priority): a stable sort, highest
\* priority first.
InsertByPriority(sorted, p) ==
    SelectSeq(sorted, LAMBDA q : priority(q) >= priority(p))
        \o <<p>> \o
    SelectSeq(sorted, LAMBDA q : priority(q) < priority(p))

RECURSIVE SortByPriority(_)
SortByPriority(s) ==
    IF s = <<>> THEN <<>>
    ELSE InsertByPriority(SortByPriority(SubSeq(s, 1, Len(s) - 1)), s[Len(s)])

registerNoSort(ps, p) == Append(ps, p)

\* ParserRegistry.register / XCResultParser.registerParser: push, then sort.
register(ps, p) == SortByPriority(Append(ps, p))

\* getParsers(): a copy of the field.
getParsers == parsers

\* ------------------------------------------------ ParserRegistry.parse
\* errors.push(new Error(`${parser.name} parser failed: ${error.message}`))
parserFailed(p, error) ==
    [cls |-> "Error", code |-> "",
     message |-> <<name(p), " parser failed: ">> \o error.message,
     originalError |-> <<>>]

\* Array.prototype.join over message fragments.
RECURSIVE join(_, _)
join(frags, sep) ==
    IF frags = <<>> THEN <<>>
    ELSE IF Len(frags) = 1 THEN frags[1]
    ELSE frags[1] \o <<sep>> \o join(Tail(frags), sep)

noParserCouldHandleTriedOnly(errors, ps) ==
    [cls |-> "Error", code |-> "",
     message |->
        <<"No parser could handle the xcresult format. Tried parsers in order:\n  ">>
        \o join([i \in 1..Len(errors) |-> <<"parser failed">>], "\n  "),
     originalError |-> <<>>]

noParserCouldHandle(errors, ps) ==
    [cls |-> "Error", code |-> "",
     message |->
        <<"No parser could handle the xcresult format. Tried parsers in order:\n  ">>
        \o join([i \in 1..Len(errors) |-> errors[i].message], "\n  ")
        \o <<"\n", "Available parsers: ">>
        \o join([i \in 1..Len(ps) |-> <<name(ps[i])>>], ", "),
     originalError |-> <<>>]

IdleCall ==
    [phase |-> "idle", idx |-> 0, beh |-> [p \in ParserPool |-> "reject"],
     errors |-> <<>>, log |-> <<>>, result |-> Pending,
     bundlePath |-> "", dataError |-> <<>>]

\* The for...of loop of ParserRegistry.parse from index i, run up to the
\* next suspension (await parser.parse) or to the end of the function.
RECURSIVE registryLoop(_, _, _, _)
registryLoop(c, ps, i, errors) ==
    IF i > Len(ps)
    THEN [c EXCEPT !.phase = "done", !.idx = i, !.errors = errors,
                   !.result = Raise(noParserCouldHandle(errors, ps))]
    ELSE LET p  == ps[i]
             c1 == [c EXCEPT !.log = Append(c.log, <<"canParse", p>>)]
         IN CASE c.beh[p] = "reject" -> registryLoop(c1, ps, i + 1, errors)
              [] c.beh[p] = "canParseThrows" ->
                    registryLoop(c1, ps, i + 1, Append(errors, parserFailed(p, ParserError(p))))
              [] OTHER ->
                    [c1 EXCEPT !.phase = "parsing", !.idx = i, !.errors = errors,
                               !.log = Append(c1.log, <<"parse", p>>)]

\* The awaited parser.parse settles: return its Report, or catch and go on.
registryParseSettledRaise(c, ps) ==
    LET p == ps[c.idx]
    IN IF c.beh[p] = "acceptOk"
       THEN [c EXCEPT !.phase = "done", !.result = ReportOf(p)]
       ELSE [c EXCEPT !.phase = "done", !.result = Raise(ParserError(p))]

registryParseSettled(c, ps) ==
    LET p == ps[c.idx]
    IN IF c.beh[p] = "acceptOk"
       THEN [c EXCEPT !.phase = "done", !.result = ReportOf(p)]
       ELSE registryLoop(c, ps, c.idx + 1,
                         Append(c.errors, parserFailed(p, ParserError(p))))

\* ------------------------------------------------ XCResultParser.parse
\* The outer catch: an XCResultError is rethrown, anything else is wrapped.
\* A catch clause that rethrows whatever it caught.
outerCatchRethrow(error) == error

outerCatch(error) ==
    IF error.cls = "XCResultError" THEN error ELSE xcresulttoolFailed(error)

RECURSIVE coreLoopNoGate(_, _, _)
coreLoopNoGate(c, ps, i) ==
    IF i > Len(ps)
    THEN [c EXCEPT !.phase = "done", !.idx = i,
                   !.result = Raise(outerCatch(unsupportedFormat))]
    ELSE LET p  == ps[i]
             c1 == [c EXCEPT !.log = Append(c.log, <<"canParse", p>>)]
         IN CASE c.beh[p] = "canParseThrows" ->
                    [c1 EXCEPT !.phase = "done", !.idx = i,
                               !.result = Raise(outerCatch(ParserError(p)))]
              [] OTHER ->
                    [c1 EXCEPT !.phase = "parsing", !.idx = i,
                               !.log = Append(c1.log, <<"parse", p>>)]

RECURSIVE coreLoop(_, _, _)
coreLoop(c, ps, i) ==
    IF i > Len(ps)
    THEN [c EXCEPT !.phase = "done", !.idx = i,
                   !.result = Raise(outerCatch(unsupportedFormat))]
    ELSE LET p  == ps[i]
             c1 == [c EXCEPT !.log = Append(c.log, <<"canParse", p>>)]
         IN CASE c.beh[p] = "reject" -> coreLoop(c1, ps, i + 1)
              [] c.beh[p] = "canParseThrows" ->
                    [c1 EXCEPT !.phase = "done", !.idx = i,
                               !.result = Raise(outerCatch(ParserError(p)))]
              [] OTHER ->
                    [c1 EXCEPT !.phase = "parsing", !.idx = i,
                               !.log = Append(c1.log, <<"parse", p>>)]

coreParseSettled(c, ps) ==
    LET p == ps[c.idx]
    IN IF c.beh[p] = "acceptOk"
       THEN [c EXCEPT !.phase = "done", !.result = ReportOf(p)]
       ELSE coreLoop(c, ps, c.idx + 1)

\* The errors a Raw Data Source rejects with: a domain error, or any Error.
DataSourceErrors(path) ==
    { invalidBundle(path),
      [cls |-> "XCResultError", code |-> "XCRESULTTOOL_NOT_FOUND",
       message |-> <<"xcresulttool not found. Ensure Xcode is installed.">>,
       originalError |-> <<>>],
      [cls |-> "Error", code |-> "", message |-> <<"Mock data source error">>,
       originalError |-> <<>>] }

BundlePaths == {"", "/test/path"}

\* Behaviours are drawn for the registered parsers only.
BehaviourMaps(ps) ==
    { b \in [ParserPool -> Behaviours] :
        \A p \in ParserPool : (\A i \in 1..Len(ps) : ps[i] # p) => b[p] = "reject" }

\* ============================================================ JavaScript
\* Raw xcresulttool output is untyped JSON.  A value is a record tagged with
\* its typeof / shape; an object carries a function from keys to values.
Undefined  == [t |-> "undefined"]
Null       == [t |-> "null"]
Num(n)     == [t |-> "number", n |-> n]
Str(s)     == [t |-> "string", s |-> s]
Bool(b)    == [t |-> "boolean", b |-> b]
Arr(items) == [t |-> "array", items |-> items]
Obj(fs)    == [t |-> "object", fields |-> fs]
TypeError  == [t |-> "TypeError"]   \* the expression threw a TypeError

NoFields   == [k \in {} |-> Undefined]
Wrap(v)    == Obj("_value" :> v)    \* { _value: v }
Values(vs) == Obj("_values" :> Arr(vs))   \* { _values: [...] }

\* ToBoolean
Truthy(v) ==
    CASE v.t \in {"undefined", "null", "TypeError"} -> FALSE
      [] v.t = "number"  -> v.n # 0
      [] v.t = "string"  -> v.s # ""
      [] v.t = "boolean" -> v.b
      [] OTHER           -> TRUE

\* o.k on a value that is neither null nor undefined
Get(v, k) ==
    IF v.t = "object" /\ k \in DOMAIN v.fields THEN v.fields[k]
    ELSE IF k = "length" /\ v.t = "array" THEN Num(Len(v.items))
    ELSE IF k = "length" /\ v.t = "string" THEN Num(Len(v.s))
    ELSE Undefined

\* o.k : throws on null and undefined
Dot(v, k) ==
    IF v.t \in {"undefined", "null", "TypeError"} THEN TypeError ELSE Get(v, k)

\* o?.k
OptDot(v, k) ==
    IF v.t = "TypeError" THEN TypeError
    ELSE IF v.t \in {"undefined", "null"} THEN Undefined ELSE Get(v, k)

RECURSIVE DotPath(_, _)
DotPath(v, ks) == IF ks = <<>> THEN v ELSE DotPath(Dot(v, Head(ks)), Tail(ks))

RECURSIVE OptPath(_, _)
OptPath(v, ks) == IF ks = <<>> THEN v ELSE OptPath(OptDot(v, Head(ks)), Tail(ks))

\* a && b, a || b, a ?? b, !!a, Array.isArray(a), typeof a === 'number'
And(a, b)  == IF a.t = "TypeError" THEN a ELSE IF Truthy(a) THEN b ELSE a
Or(a, b)   == IF a.t = "TypeError" THEN a ELSE IF Truthy(a) THEN a ELSE b
Nullish(a, b) == IF a.t \in {"undefined", "null"} THEN b ELSE a
NotNot(a)  == IF a.t = "TypeError" THEN a ELSE Bool(Truthy(a))
IsArray(a) == IF a.t = "TypeError" THEN a ELSE Bool(a.t = "array")
IsNumber(a) == Bool(a.t = "number")

\* -------------------------------------------------------------- canParse
\* Xcode16Parser (formats/registry.ts)
Xcode16Parser_canParse(data) ==
    And(OptDot(data, "testNodes"), IsArray(Dot(data, "testNodes")))

\* LegacyParser (formats/legacy-parser.ts)
LegacyParser_canParse(data) ==
    And(OptPath(data, <<"issues", "testableSummaries", "_values">>),
        IsArray(DotPath(data, <<"issues", "testableSummaries", "_values">>)))

\* Xcode15LegacyParser (formats/xcode15-legacy-parser.ts)
Xcode15LegacyParser_canParse(data) ==
    And(OptPath(data, <<"actions", "_values">>),
        IsArray(DotPath(data, <<"actions", "_values">>)))

\* Xcode16FormatParser (formats/xcode16-format-parser.ts)
Xcode16FormatParser_canParse(data) ==
    NotNot(And(And(And(OptDot(data, "devicesAndConfigurations"),
                       IsArray(Dot(data, "devicesAndConfigurations"))),
                   IsNumber(OptDot(data, "passedTests"))),
               IsNumber(OptDot(data, "failedTests"))))

\* Xcode15FormatParser
\* A recognition predicate that accepts every object.
Xcode15FormatParser_canParseAnyObject(data) == Bool(data.t = "object")

Xcode15FormatParser_canParse(data) ==
    NotNot(And(OptPath(data, <<"actions", "_values">>),
               IsArray(DotPath(data, <<"actions", "_values">>))))

\* LegacyFormatParser (formats/legacy-parser.ts)
LegacyFormatParser_canParse(data) ==
    NotNot(And(OptPath(data, <<"issues", "testableSummaries", "_values">>),
               IsArray(DotPath(data, <<"issues", "testableSummaries", "_values">>))))

FormatParsers == {"Xcode16Parser", "LegacyParser", "Xcode15LegacyParser",
                  "Xcode16FormatParser", "Xcode15FormatParser", "LegacyFormatParser"}

canParse(parser, data) ==
    CASE parser = "Xcode16Parser"        -> Xcode16Parser_canParse(data)
      [] parser = "LegacyParser"         -> LegacyParser_canParse(data)
      [] parser = "Xcode15LegacyParser"  -> Xcode15LegacyParser_canParse(data)
      [] parser = "Xcode16FormatParser"  -> Xcode16FormatParser_canParse(data)
      [] parser = "Xcode15FormatParser"  -> Xcode15FormatParser_canParse(data)
      [] OTHER                           -> LegacyFormatParser_canParse(data)


\* ------------------------------------------------------------ the tool
\* What `xcrun xcresulttool get ...` does for one bundle: `tool` is an object
\* from the request (a sub-command or a reference id) to the parsed JSON it
\* prints; a request it has no entry for fails.
ExecaError == [t |-> "Error"]

execa(tool, request) ==
    IF request \in DOMAIN tool.fields THEN tool.fields[request] ELSE ExecaError

\* ------------------------------------------------------ Report building
Spread(v) == IF v.t = "object" THEN v.fields ELSE NoFields   \* ...(v)

RECURSIVE Sum(_)
Sum(ns) == IF ns = <<>> THEN 0 ELSE Head(ns) + Sum(Tail(ns))

Durations(tests) == [i \in 1..Len(tests) |-> tests[i].duration]

RECURSIVE Flatten(_)
Flatten(ss) == IF ss = <<>> THEN <<>> ELSE Head(ss) \o Flatten(Tail(ss))

\* `${v}` inside a template literal
TemplateString(v) ==
    CASE v.t = "string"    -> v.s
      [] v.t = "undefined" -> "undefined"
      [] v.t = "null"      -> "null"
      [] OTHER             -> "[object]"

\* suites.reduce((sum, suite) => sum + suite.failed.length + suite.passed.length, 0)
CountTests(suites) ==
    Sum([i \in 1..Len(suites) |-> Len(suites[i].failed) + Len(suites[i].passed)])

\* ------------------------ LegacyFormatParser (formats/legacy-parser.ts)
LegacyFormatParser_mapStatus(status) ==
    CASE status = Str("Success") -> "Success"
      [] status = Str("Failure") -> "Failure"
      [] status = Str("Skipped") -> "Skipped"
      [] OTHER                   -> "Failure"

\* (mutant) a node is a container by its subtests alone
IsContainerBySubtests(test) ==
    Truthy(OptPath(test, <<"subtests", "_values", "length">>))

IsContainer(test) ==
    Truthy(Or(OptPath(test, <<"subtests", "_values", "length">>),
              OptPath(test, <<"children", "_values", "length">>)))

\* Returns <<>> for null, <<result>> otherwise.
LegacyFormatParser_extractTestResultNotSuccess(test) ==
    IF IsContainer(test) THEN <<>>
    ELSE LET testName == Or(OptPath(test, <<"identifier", "_value">>), Str("Unknown Test"))
             status   == Or(OptPath(test, <<"testStatus", "_value">>), Str("Unknown"))
             duration == IF OptPath(test, <<"duration", "_value">>).t = "number"
                         THEN DotPath(test, <<"duration", "_value">>).n ELSE 0
             failureMessage == IF status # Str("Success") THEN Str("Test failed")
                               ELSE Undefined
         IN << [name |-> testName,
                status |-> LegacyFormatParser_mapStatus(status),
                duration |-> duration]
               @@ Spread(And(failureMessage, Obj("failureMessage" :> failureMessage))) >>

LegacyFormatParser_extractTestResult(test) ==
    IF IsContainer(test) THEN <<>>
    ELSE LET testName == Or(OptPath(test, <<"identifier", "_value">>), Str("Unknown Test"))
             status   == Or(OptPath(test, <<"testStatus", "_value">>), Str("Unknown"))
             duration == IF OptPath(test, <<"duration", "_value">>).t = "number"
                         THEN DotPath(test, <<"duration", "_value">>).n ELSE 0
             failureMessage == IF status = Str("Failure") THEN Str("Test failed")
                               ELSE Undefined
         IN << [name |-> testName,
                status |-> LegacyFormatParser_mapStatus(status),
                duration |-> duration]
               @@ Spread(And(failureMessage, Obj("failureMessage" :> failureMessage))) >>

RECURSIVE LegacyFormatParser_collectTests(_, _)
RECURSIVE LegacyFormatParser_forEach(_, _)

LegacyFormatParser_collectTests(node, results) ==
    LET r1   == results \o LegacyFormatParser_extractTestResult(node)
        subs == OptPath(node, <<"subtests", "_values">>)
        r2   == IF Truthy(subs) THEN LegacyFormatParser_forEach(subs.items, r1) ELSE r1
        kids == OptPath(node, <<"children", "_values">>)
    IN IF Truthy(kids) THEN LegacyFormatParser_forEach(kids.items, r2) ELSE r2

LegacyFormatParser_forEach(nodes, results) ==
    IF nodes = <<>> THEN results
    ELSE LegacyFormatParser_forEach(Tail(nodes),
            LegacyFormatParser_collectTests(Head(nodes), results))

\* allTests of parseSuite: every TestResult collected for one summary.
LegacyFormatParser_allTests(summary) ==
    LET tests == OptPath(summary, <<"tests", "_values">>)
    IN IF Truthy(tests) THEN LegacyFormatParser_forEach(tests.items, <<>>) ELSE <<>>

LegacyFormatParser_parseSuiteNotSuccess(summary) ==
    LET allTests == LegacyFormatParser_allTests(summary)
    IN [suiteName |-> Or(OptPath(summary, <<"name", "_value">>), Str("Unknown Suite")),
        duration  |-> Sum(Durations(allTests)),
        failed    |-> SelectSeq(allTests, LAMBDA r : r.status # "Success"),
        passed    |-> SelectSeq(allTests, LAMBDA r : r.status = "Success")]

LegacyFormatParser_parseSuite(summary) ==
    LET allTests == LegacyFormatParser_allTests(summary)
    IN [suiteName |-> Or(OptPath(summary, <<"name", "_value">>), Str("Unknown Suite")),
        duration  |-> Sum(Durations(allTests)),
        failed    |-> SelectSeq(allTests, LAMBDA r : r.status = "Failure"),
        passed    |-> SelectSeq(allTests, LAMBDA r : r.status = "Success")]

LegacyFormatParser_parse(data) ==
    LET testSummaries == Or(OptPath(data, <<"issues", "testableSummaries", "_values">>),
                            Arr(<<>>))
        suites == [i \in 1..Len(testSummaries.items) |->
                      LegacyFormatParser_parseSuite(testSummaries.items[i])]
    IN [totalSuites   |-> Len(suites),
        totalTests    |-> CountTests(suites),
        totalDuration |-> Sum([i \in 1..Len(suites) |-> suites[i].duration]),
        suites        |-> suites]


\* ----------------------------------- Xcode16Parser (formats/registry.ts)
Xcode16Parser_mapStatusUnknownSkipped(result) ==
    CASE result = Str("Passed")  -> "Success"
      [] result = Str("Failed")  -> "Failure"
      [] OTHER                   -> "Skipped"

Xcode16Parser_mapStatus(result) ==
    CASE result = Str("Passed")  -> "Success"
      [] result = Str("Failed")  -> "Failure"
      [] result = Str("Skipped") -> "Skipped"
      [] OTHER                   -> "Failure"

\* `Test '${node.name}' failed`
Xcode16Parser_getFailureMessage(node) ==
    Str("Test '" \o TemplateString(Dot(node, "name")) \o "' failed")

RECURSIVE Xcode16Parser_extractTestCases(_)
Xcode16Parser_extractTestCases(node) ==
    LET own == IF Dot(node, "nodeType") = Str("Test Case")
               THEN << [name     |-> Dot(node, "name"),
                        status   |-> Xcode16Parser_mapStatus(Dot(node, "result")),
                        duration |-> Nullish(Dot(node, "durationInSeconds"), Num(0)).n,
                        failureMessage |->
                            IF Dot(node, "result") = Str("Failed")
                            THEN Xcode16Parser_getFailureMessage(node) ELSE Undefined] >>
               ELSE <<>>
        kids == Dot(node, "children")
    IN IF Truthy(kids)
       THEN own \o Flatten([i \in 1..Len(kids.items) |->
                               Xcode16Parser_extractTestCases(kids.items[i])])
       ELSE own

RECURSIVE Xcode16Parser_createSuitesFromNode(_)
Xcode16Parser_createSuitesFromNode(node) ==
    IF Dot(node, "nodeType") = Str("Test Suite")
    THEN LET allTests == Xcode16Parser_extractTestCases(node)
         IN << [suiteName |-> Dot(node, "name"),
                duration  |-> Sum(Durations(allTests)),
                failed    |-> SelectSeq(allTests, LAMBDA r : r.status = "Failure"),
                passed    |-> SelectSeq(allTests, LAMBDA r : r.status = "Success")] >>
    ELSE IF Truthy(Dot(node, "children"))
    THEN Flatten([i \in 1..Len(Dot(node, "children").items) |->
                     Xcode16Parser_createSuitesFromNode(Dot(node, "children").items[i])])
    ELSE <<>>

\* (mutant) only the testNodes that are Test Suite nodes themselves give suites
Xcode16Parser_parseTopLevelSuites(data) ==
    LET testNodes == Dot(data, "testNodes").items
        suites == Flatten([i \in 1..Len(testNodes) |->
                              IF Dot(testNodes[i], "nodeType") = Str("Test Suite")
                              THEN Xcode16Parser_createSuitesFromNode(testNodes[i])
                              ELSE <<>>])
    IN [totalSuites   |-> Len(suites),
        totalTests    |-> CountTests(suites),
        totalDuration |-> Sum([i \in 1..Len(suites) |-> suites[i].duration]),
        suites        |-> suites]

Xcode16Parser_parse(data) ==
    LET testNodes == Dot(data, "testNodes").items
        suites == Flatten([i \in 1..Len(testNodes) |->
                              Xcode16Parser_createSuitesFromNode(testNodes[i])])
    IN [totalSuites   |-> Len(suites),
        totalTests    |-> CountTests(suites),
        totalDuration |-> Sum([i \in 1..Len(suites) |-> suites[i].duration]),
        suites        |-> suites]

\* ------------ Xcode16FormatParser (formats/xcode16-format-parser.ts)
Xcode16FormatParser_mapStatus(result) ==
    CASE result = Str("Passed")  -> "Success"
      [] result = Str("Failed")  -> "Failure"
      [] result = Str("Skipped") -> "Skipped"
      [] OTHER                   -> "Failure"

\* new Map(); testFailures.forEach(f => map.set(key(f), f)); map.get(id):
\* the last entry set under the key, undefined when there is none.
RECURSIVE FailureMapGet(_, _)
FailureMapGet(testFailures, identifier) ==
    IF testFailures = <<>> THEN Undefined
    ELSE LET last == testFailures[Len(testFailures)]
             key  == Or(Dot(last, "testIdentifierString"), Dot(last, "testIdentifier"))
         IN IF key = identifier THEN last
            ELSE FailureMapGet(SubSeq(testFailures, 1, Len(testFailures) - 1), identifier)

RECURSIVE Xcode16FormatParser_extractTestCases(_, _)
Xcode16FormatParser_extractTestCases(node, testFailures) ==
    LET status     == Xcode16FormatParser_mapStatus(Dot(node, "result"))
        identifier == Or(Dot(node, "nodeIdentifier"), Dot(node, "name"))
        failure    == FailureMapGet(testFailures, identifier)
        failureMessage ==
            IF status = "Failure"
            THEN Or(OptDot(failure, "failureText"),
                    Str("Test '" \o TemplateString(Dot(node, "name")) \o "' failed"))
            ELSE Undefined
        own == IF Dot(node, "nodeType") = Str("Test Case")
               THEN << [name     |-> Or(Dot(node, "name"), identifier),
                        status   |-> status,
                        duration |-> Nullish(Dot(node, "durationInSeconds"), Num(0)).n]
                       @@ Spread(And(failureMessage,
                                     Obj("failureMessage" :> failureMessage))) >>
               ELSE <<>>
        kids == Dot(node, "children")
    IN IF Truthy(kids)
       THEN own \o Flatten([i \in 1..Len(kids.items) |->
                 Xcode16FormatParser_extractTestCases(kids.items[i], testFailures)])
       ELSE own

RECURSIVE Xcode16FormatParser_createSuitesFromNode(_, _)
Xcode16FormatParser_createSuitesFromNode(node, testFailures) ==
    IF Dot(node, "nodeType") = Str("Test Suite")
    THEN LET allTests == Xcode16FormatParser_extractTestCases(node, testFailures)
         IN << [suiteName |-> Or(Dot(node, "name"), Str("Unknown Suite")),
                duration  |-> Sum(Durations(allTests)),
                failed    |-> SelectSeq(allTests, LAMBDA r : r.status = "Failure"),
                passed    |-> SelectSeq(allTests, LAMBDA r : r.status = "Success")] >>
    ELSE IF Truthy(Dot(node, "children"))
    THEN Flatten([i \in 1..Len(Dot(node, "children").items) |->
             Xcode16FormatParser_createSuitesFromNode(Dot(node, "children").items[i],
                                                      testFailures)])
    ELSE <<>>

Xcode16FormatParser_parseTestNodes(testNodes, testFailures) ==
    Flatten([i \in 1..Len(testNodes) |->
                Xcode16FormatParser_createSuitesFromNode(testNodes[i], testFailures)])

Xcode16FormatParser_calculateDuration(startTime, finishTime) ==
    IF Truthy(startTime) /\ Truthy(finishTime) THEN finishTime.n - startTime.n ELSE 0

\* getTestDetails: the JSON xcresulttool printed, { testNodes: [] } if it failed.
Xcode16FormatParser_getTestDetails(tool) ==
    LET stdout == execa(tool, "test-results tests")
    IN IF stdout = ExecaError THEN Obj("testNodes" :> Arr(<<>>)) ELSE stdout

Xcode16FormatParser_parse(data, tool) ==
    LET testDetails == Xcode16FormatParser_getTestDetails(tool)
        suites == Xcode16FormatParser_parseTestNodes(
                      Or(Dot(testDetails, "testNodes"), Arr(<<>>)).items,
                      Or(Dot(data, "testFailures"), Arr(<<>>)).items)
    IN [totalSuites   |-> Len(suites),
        totalTests    |-> Or(Dot(data, "passedTests"), Num(0)).n
                          + Or(Dot(data, "failedTests"), Num(0)).n
                          + Or(Dot(data, "skippedTests"), Num(0)).n,
        totalDuration |-> Xcode16FormatParser_calculateDuration(
                              Dot(data, "startTime"), Dot(data, "finishTime")),
        suites        |-> suites]

\* ------------------------------------------------ Xcode15FormatParser
\* new Date(s).getTime(), in milliseconds since the first timestamp used.
DateGetTime(v) ==
    CASE v = Str("2024-01-01T10:00:00Z") -> 0
      [] v = Str("2024-01-01T10:01:00Z") -> 60000
      [] OTHER                           -> 0

\* a?.[0]
OptFirst(a) ==
    IF a.t = "array" /\ a.items # <<>> THEN a.items[1] ELSE Undefined

Xcode15FormatParser_parse(data) ==
    LET action == OptFirst(OptPath(data, <<"actions", "_values">>))
        started == OptPath(action, <<"startedTime", "_value">>)
        ended   == OptPath(action, <<"endedTime", "_value">>)
        totalActionDuration ==
            IF Truthy(started) /\ Truthy(ended)
            THEN (DateGetTime(ended) - DateGetTime(started)) \div 1000 ELSE 0
        suites == <<>>
    IN [totalSuites   |-> Len(suites),
        totalTests    |-> CountTests(suites),
        totalDuration |-> totalActionDuration,
        suites        |-> suites]

\* ------------------------------------------------------- Promise.all
\* Each element of a mapped array runs an async call that pushes to one shared
\* array; the calls suspend at their awaits and interleave.  Merges(a, b) is
\* every interleaving of the pushes a and b of two such calls.
RECURSIVE Merges(_, _)
Merges(a, b) ==
    IF a = <<>> THEN {b}
    ELSE IF b = <<>> THEN {a}
    ELSE {<<Head(a)>> \o m : m \in Merges(Tail(a), b)}
         \cup {<<Head(b)>> \o m : m \in Merges(a, Tail(b))}

\* pushes[i] is the set of push sequences the i-th call can make.
RECURSIVE PromiseAll(_)
PromiseAll(pushes) ==
    IF pushes = <<>> THEN {<<>>}
    ELSE UNION {Merges(h, t) : h \in Head(pushes), t \in PromiseAll(Tail(pushes))}

\* One element of each set, in order.
RECURSIVE Choices(_)
Choices(sets) ==
    IF sets = <<>> THEN {<<>>}
    ELSE {<<h>> \o t : h \in Head(sets), t \in Choices(Tail(sets))}

\* ------------------------------ LegacyParser (formats/legacy-parser.ts)
LegacyParser_mapStatus(status) ==
    CASE status = Str("Success") -> "Success"
      [] status = Str("Failure") -> "Failure"
      [] status = Str("Skipped") -> "Skipped"
      [] OTHER                   -> "Failure"

LegacyParser_extractTestResult(test) ==
    IF IsContainer(test) THEN <<>>
    ELSE LET testName == Or(OptPath(test, <<"identifier", "_value">>), Str("Unknown Test"))
             status   == Or(OptPath(test, <<"testStatus", "_value">>), Str("Unknown"))
             duration == IF OptPath(test, <<"duration", "_value">>).t = "number"
                         THEN DotPath(test, <<"duration", "_value">>).n ELSE 0
             failureMessage == IF status = Str("Failure") THEN Str("Test failed")
                               ELSE Undefined
         IN << [name |-> testName,
                status |-> LegacyParser_mapStatus(status),
                duration |-> duration]
               @@ Spread(And(failureMessage, Obj("failureMessage" :> failureMessage))) >>

\* The sequences of results one collectTests(node, results) call can push.
RECURSIVE LegacyParser_collectTests(_)
LegacyParser_collectTests(node) ==
    LET own  == LegacyParser_extractTestResult(node)
        subs == OptPath(node, <<"subtests", "_values">>)
        kids == OptPath(node, <<"children", "_values">>)
        S == IF Truthy(subs)
             THEN PromiseAll([i \in 1..Len(subs.items) |->
                                 LegacyParser_collectTests(subs.items[i])])
             ELSE {<<>>}
        C == IF Truthy(kids)
             THEN PromiseAll([i \in 1..Len(kids.items) |->
                                 LegacyParser_collectTests(kids.items[i])])
             ELSE {<<>>}
    IN {own \o sp \o cp : sp \in S, cp \in C}

\* The contents allTests can have once parseSuite's Promise.all has settled.
LegacyParser_allTests(summary) ==
    LET tests == OptPath(summary, <<"tests", "_values">>)
    IN IF Truthy(tests)
       THEN PromiseAll([i \in 1..Len(tests.items) |->
                           LegacyParser_collectTests(tests.items[i])])
       ELSE {<<>>}

\* (mutant) the duration sums the listed tests only
LegacyParser_parseSuiteListedDuration(summary, allTests) ==
    [suiteName |-> Or(OptPath(summary, <<"name", "_value">>), Str("Unknown Suite")),
     duration  |-> Sum(Durations(SelectSeq(allTests,
                                           LAMBDA r : r.status \in {"Failure", "Success"}))),
     failed    |-> SelectSeq(allTests, LAMBDA r : r.status = "Failure"),
     passed    |-> SelectSeq(allTests, LAMBDA r : r.status = "Success")]

\* parseSuite, from the settled allTests on.
LegacyParser_parseSuite(summary, allTests) ==
    [suiteName |-> Or(OptPath(summary, <<"name", "_value">>), Str("Unknown Suite")),
     duration  |-> Sum(Durations(allTests)),
     failed    |-> SelectSeq(allTests, LAMBDA r : r.status = "Failure"),
     passed    |-> SelectSeq(allTests, LAMBDA r : r.status = "Success")]

LegacyParser_testSummaries(data) ==
    Or(OptPath(data, <<"issues", "testableSummaries", "_values">>), Arr(<<>>)).items

\* parse, given for each summary the allTests its parseSuite settled with.
LegacyParser_parse(data, collected) ==
    LET testSummaries == LegacyParser_testSummaries(data)
        suites == [i \in 1..Len(testSummaries) |->
                      LegacyParser_parseSuite(testSummaries[i], collected[i])]
    IN [totalSuites   |-> Len(suites),
        totalTests    |-> CountTests(suites),
        totalDuration |-> Sum([i \in 1..Len(suites) |-> suites[i].duration]),
        suites        |-> suites]

\* ------------- Xcode15LegacyParser (formats/xcode15-legacy-parser.ts)
Xcode15LegacyParser_mapStatus(status) ==
    CASE status = Str("Success") -> "Success"
      [] status = Str("Failure") -> "Failure"
      [] status = Str("Skipped") -> "Skipped"
      [] OTHER                   -> "Failure"

\* xcresulttool get --legacy --id referenceId
Xcode15LegacyParser_getTestDetails(tool, referenceId) == execa(tool, referenceId.s)

\* a[0]
First(a) == IF a.items # <<>> THEN a.items[1] ELSE Undefined

\* The message taken from the fetched details; undefined when there is none.
Xcode15LegacyParser_messageOf(details) ==
    LET failureSummaries == Or(OptPath(details, <<"failureSummaries", "_values">>), Arr(<<>>))
        fromFailure ==
            IF Len(failureSummaries.items) > 0
            THEN Or(OptPath(First(failureSummaries), <<"message", "_value">>),
                    Str("Test failed"))
            ELSE Undefined
        allSummaries ==
            Or(OptPath(details, <<"summaries", "_values">>), Arr(<<>>)).items
            \o Or(OptPath(details, <<"testFailureSummaries", "_values">>), Arr(<<>>)).items
    IN IF ~Truthy(fromFailure) /\ Len(allSummaries) > 0
       THEN Or(Or(OptPath(allSummaries[1], <<"message", "_value">>),
                  OptPath(allSummaries[1], <<"title", "_value">>)),
               Str("Test failed"))
       ELSE fromFailure

Xcode15LegacyParser_extractTestResult(test, tool) ==
    IF IsContainer(test) THEN <<>>
    ELSE LET testName == Or(OptPath(test, <<"identifier", "_value">>), Str("Unknown Test"))
             status   == Or(OptPath(test, <<"testStatus", "_value">>), Str("Unknown"))
             duration == IF OptPath(test, <<"duration", "_value">>).t = "number"
                         THEN DotPath(test, <<"duration", "_value">>).n ELSE 0
             ref      == OptPath(test, <<"summaryRef", "id", "_value">>)
             details  == Xcode15LegacyParser_getTestDetails(tool, ref)
             failureMessage ==
                 IF status = Str("Failure") /\ Truthy(ref)
                 THEN IF details = ExecaError \/ ~Truthy(details) THEN Undefined
                      ELSE Xcode15LegacyParser_messageOf(details)
                 ELSE Undefined
         IN << [name |-> testName,
                status |-> Xcode15LegacyParser_mapStatus(status),
                duration |-> duration]
               @@ Spread(And(failureMessage, Obj("failureMessage" :> failureMessage))) >>

RECURSIVE Xcode15LegacyParser_collectTests(_, _)
Xcode15LegacyParser_collectTests(node, tool) ==
    LET own  == Xcode15LegacyParser_extractTestResult(node, tool)
        subs == OptPath(node, <<"subtests", "_values">>)
        kids == OptPath(node, <<"children", "_values">>)
        S == IF Truthy(subs)
             THEN PromiseAll([i \in 1..Len(subs.items) |->
                                 Xcode15LegacyParser_collectTests(subs.items[i], tool)])
             ELSE {<<>>}
        C == IF Truthy(kids)
             THEN PromiseAll([i \in 1..Len(kids.items) |->
                                 Xcode15LegacyParser_collectTests(kids.items[i], tool)])
             ELSE {<<>>}
    IN {own \o sp \o cp : sp \in S, cp \in C}

Xcode15LegacyParser_allTests(summary, tool) ==
    LET tests == OptPath(summary, <<"tests", "_values">>)
    IN IF Truthy(tests)
       THEN PromiseAll([i \in 1..Len(tests.items) |->
                           Xcode15LegacyParser_collectTests(tests.items[i], tool)])
       ELSE {<<>>}

Xcode15LegacyParser_parseSuite(summary, allTests) ==
    [suiteName |-> Or(OptPath(summary, <<"name", "_value">>), Str("Unknown Suite")),
     duration  |-> Sum(Durations(allTests)),
     failed    |-> SelectSeq(allTests, LAMBDA r : r.status = "Failure"),
     passed    |-> SelectSeq(allTests, LAMBDA r : r.status = "Success")]

Xcode15LegacyParser_testsRef(data) ==
    OptPath(OptFirst(OptPath(data, <<"actions", "_values">>)),
            <<"actionResult", "testsRef", "id", "_value">>)

\* parse rejects when the fetch of the tests reference fails.
Xcode15LegacyParser_rejects(data, tool) ==
    /\ Truthy(Xcode15LegacyParser_testsRef(data))
    /\ Xcode15LegacyParser_getTestDetails(tool, Xcode15LegacyParser_testsRef(data)) = ExecaError

\* The testable summaries parse walks, in order.
Xcode15LegacyParser_testableSummaries(data, tool) ==
    LET testDetails == Xcode15LegacyParser_getTestDetails(tool, Xcode15LegacyParser_testsRef(data))
        testSummaries == Or(OptPath(testDetails, <<"summaries", "_values">>), Arr(<<>>)).items
    IN IF ~Truthy(Xcode15LegacyParser_testsRef(data)) THEN <<>>
       ELSE Flatten([i \in 1..Len(testSummaries) |->
               IF Truthy(OptPath(testSummaries[i], <<"testableSummaries", "_values">>))
               THEN DotPath(testSummaries[i], <<"testableSummaries", "_values">>).items
               ELSE <<>>])

Xcode15LegacyParser_parse(data, tool, collected) ==
    LET action  == OptFirst(OptPath(data, <<"actions", "_values">>))
        started == OptPath(action, <<"startedTime", "_value">>)
        ended   == OptPath(action, <<"endedTime", "_value">>)
        totalActionDuration ==
            IF Truthy(started) /\ Truthy(ended)
            THEN (DateGetTime(ended) - DateGetTime(started)) \div 1000 ELSE 0
        summaries == Xcode15LegacyParser_testableSummaries(data, tool)
        suites == [i \in 1..Len(summaries) |->
                      Xcode15LegacyParser_parseSuite(summaries[i], collected[i])]
    IN [totalSuites   |-> Len(suites),
        totalTests    |-> CountTests(suites),
        totalDuration |-> totalActionDuration,
        suites        |-> suites]

\* ---------------------------------------- the older parser (src/parser.ts)
\* xcjson.getTestDetails: the parsed output, null when the tool fails.
getTestDetailsEmptyOnFailure(tool, referenceId) ==
    IF execa(tool, referenceId.s) = ExecaError THEN Obj(NoFields) ELSE execa(tool, referenceId.s)

getTestDetails(tool, referenceId) ==
    IF execa(tool, referenceId.s) = ExecaError THEN Null ELSE execa(tool, referenceId.s)

\* str.includes(sub)
Includes(str, sub) ==
    \E i \in 1..(Len(str) - Len(sub) + 1) : SubSeq(str, i, i + Len(sub) - 1) = sub

\* for (const activity of activities) if (title && title.includes('failed')) ...
RECURSIVE firstFailedActivity(_)
firstFailedActivity(activities) ==
    IF activities = <<>> THEN Undefined
    ELSE LET title == OptPath(Head(activities), <<"title", "_value">>)
         IN IF Truthy(title) /\ Includes(title.s, "failed") THEN title
            ELSE firstFailedActivity(Tail(activities))

\* The failureMessage extractTestResult ends with, given fetched details.
messageOf(details) ==
    LET failureSummaries == Or(OptPath(details, <<"failureSummaries", "_values">>), Arr(<<>>))
        fromFailure ==
            IF Len(failureSummaries.items) > 0
            THEN Or(OptPath(First(failureSummaries), <<"message", "_value">>),
                    Str("Test failed"))
            ELSE Undefined
        allSummaries ==
            Or(OptPath(details, <<"summaries", "_values">>), Arr(<<>>)).items
            \o Or(OptPath(details, <<"testFailureSummaries", "_values">>), Arr(<<>>)).items
        fromSummaries ==
            IF ~Truthy(fromFailure) /\ Len(allSummaries) > 0
            THEN Or(Or(OptPath(allSummaries[1], <<"message", "_value">>),
                       OptPath(allSummaries[1], <<"title", "_value">>)),
                    Str("Test failed"))
            ELSE fromFailure
        activities == OptPath(details, <<"activitySummaries", "_values">>)
        fromActivities ==
            IF ~Truthy(fromSummaries) /\ Truthy(activities)
            THEN firstFailedActivity(activities.items)
            ELSE fromSummaries
    IN IF ~Truthy(fromActivities) THEN Str("Test failed") ELSE fromActivities

extractTestResult(test, tool) ==
    IF IsContainer(test) THEN <<>>
    ELSE LET testName == Or(OptPath(test, <<"identifier", "_value">>), Str("Unknown Test"))
             status   == Or(OptPath(test, <<"testStatus", "_value">>), Str("Unknown"))
             duration == IF OptPath(test, <<"duration", "_value">>).t = "number"
                         THEN DotPath(test, <<"duration", "_value">>).n ELSE 0
             ref      == OptPath(test, <<"summaryRef", "id", "_value">>)
             details  == getTestDetails(tool, ref)
             failureMessage ==
                 IF status = Str("Failure") /\ Truthy(ref)
                 THEN IF Truthy(details) THEN messageOf(details) ELSE Undefined
                 ELSE Undefined
         IN << [name |-> testName,
                status |-> status.s,       \* status as 'Success' | 'Failure'
                duration |-> duration]
               @@ Spread(And(failureMessage, Obj("failureMessage" :> failureMessage))) >>

\* The sequences of results one collectTests(node, ..., results) call can push.
RECURSIVE collectTests(_, _)
collectTests(node, tool) ==
    LET own  == extractTestResult(node, tool)
        subs == OptPath(node, <<"subtests", "_values">>)
        kids == OptPath(node, <<"children", "_values">>)
        S == IF Truthy(subs)
             THEN PromiseAll([i \in 1..Len(subs.items) |-> collectTests(subs.items[i], tool)])
             ELSE {<<>>}
        C == IF Truthy(kids)
             THEN PromiseAll([i \in 1..Len(kids.items) |-> collectTests(kids.items[i], tool)])
             ELSE {<<>>}
    IN {own \o sp \o cp : sp \in S, cp \in C}

\* The contents allTests can have once parseSuite's Promise.all has settled.
allTestsOf(summary, tool) ==
    LET tests == OptPath(summary, <<"tests", "_values">>)
    IN IF Truthy(tests)
       THEN PromiseAll([i \in 1..Len(tests.items) |-> collectTests(tests.items[i], tool)])
       ELSE {<<>>}

\* (mutant) every result that is no Success goes to the failed list
parseSuiteNotSuccess(summary, allTests) ==
    [suiteName |-> Or(OptPath(summary, <<"name", "_value">>), Str("Unknown Suite")),
     duration  |-> Sum(Durations(allTests)),
     failed    |-> SelectSeq(allTests, LAMBDA r : r.status # "Success"),
     passed    |-> SelectSeq(allTests, LAMBDA r : r.status = "Success")]

\* parseSuite, from the settled allTests on.
parseSuite(summary, allTests) ==
    [suiteName |-> Or(OptPath(summary, <<"name", "_value">>), Str("Unknown Suite")),
     duration  |-> Sum(Durations(allTests)),
     failed    |-> SelectSeq(allTests, LAMBDA r : r.status = "Failure"),
     passed    |-> SelectSeq(allTests, LAMBDA r : r.status = "Success")]

testsRefOf(summary) ==
    OptPath(OptFirst(OptPath(summary, <<"actions", "_values">>)),
            <<"actionResult", "testsRef", "id", "_value">>)

\* The testable summaries parseLegacyFormat walks, in order.
testableSummariesOf(summary, tool) ==
    LET testDetails   == getTestDetails(tool, testsRefOf(summary))
        testSummaries == Or(OptPath(testDetails, <<"summaries", "_values">>), Arr(<<>>)).items
    IN IF ~Truthy(testsRefOf(summary)) THEN <<>>
       ELSE Flatten([i \in 1..Len(testSummaries) |->
               IF Truthy(OptPath(testSummaries[i], <<"testableSummaries", "_values">>))
               THEN DotPath(testSummaries[i], <<"testableSummaries", "_values">>).items
               ELSE <<>>])

\* parseLegacyFormat, given for each summary the allTests its parseSuite settled with.
parseLegacyFormat(summary, tool, collected) ==
    LET action  == OptFirst(OptPath(summary, <<"actions", "_values">>))
        started == OptPath(action, <<"startedTime", "_value">>)
        ended   == OptPath(action, <<"endedTime", "_value">>)
        totalActionDuration ==
            IF Truthy(started) /\ Truthy(ended)
            THEN (DateGetTime(ended) - DateGetTime(started)) \div 1000 ELSE 0
        summaries == testableSummariesOf(summary, tool)
        suites == [i \in 1..Len(summaries) |-> parseSuite(summaries[i], collected[i])]
    IN [totalSuites   |-> Len(suites),
        totalTests    |-> CountTests(suites),
        totalDuration |-> totalActionDuration,
        suites        |-> suites]

\* ------------------------------------- convertToPublicFormat (parser.ts)
convertTest(test, withMessage) ==
    [name |-> test.name, status |-> test.status, duration |-> test.duration]
    @@ (IF withMessage /\ "failureMessage" \in DOMAIN test
        THEN Spread(And(test.failureMessage, Obj("failureMessage" :> test.failureMessage)))
        ELSE NoFields)

convertToPublicFormat(parsed) ==
    [totalSuites   |-> parsed.totalSuites,
     totalTests    |-> parsed.totalTests,
     totalDuration |-> parsed.totalDuration,
     suites |-> [i \in 1..Len(parsed.suites) |->
        [suiteName |-> parsed.suites[i].suiteName,
         duration  |-> parsed.suites[i].duration,
         failed    |-> [k \in 1..Len(parsed.suites[i].failed) |->
                           convertTest(parsed.suites[i].failed[k], TRUE)],
         passed    |-> [k \in 1..Len(parsed.suites[i].passed) |->
                           convertTest(parsed.suites[i].passed[k], FALSE)]]]]


\* ========================================================== raw inputs
SeqsUpTo(S, n) == UNION {[1..k -> S] : k \in 0..n}
OptField(k, Vs) == {NoFields} \cup {k :> v : v \in Vs}

\* Values handed to canParse that no parser should accept, and near misses.
ProbeInputs ==
    { Null, Undefined, Obj(NoFields), Arr(<<>>), Str("string"), Num(123),
      Obj("random" :> Str("data")), Obj("unknownFormat" :> Bool(TRUE)) }
    \cup { Obj("testNodes" :> v) : v \in {Null, Num(0), Str("x"), Obj(NoFields)} }
    \cup { Obj("issues" :> v) :
             v \in {Null, Str("x"), Obj(NoFields),
                    Obj("testableSummaries" :> Null),
                    Obj("testableSummaries" :> Obj(NoFields)),
                    Obj("testableSummaries" :> Obj("_values" :> Str("x"))),
                    Obj("testableSummaries" :> Obj("_values" :> Num(0)))} }
    \cup { Obj("actions" :> v) :
             v \in {Null, Num(1), Obj(NoFields), Obj("_values" :> Str("x")),
                    Obj("_values" :> Obj(NoFields))} }
    \cup { Obj(("devicesAndConfigurations" :> d) @@ p @@ f) :
             d \in {Arr(<<>>), Str("x")},
             p \in OptField("passedTests", {Num(1), Str("1")}),
             f \in OptField("failedTests", {Num(0)}) }

\* ---- legacy wrapped-array shape: issues.testableSummaries._values[]
LegacyStatuses == {"Success", "Failure", "Skipped", "Expected Failure"}

LegacyLeaves ==
    { Obj(("identifier" :> Wrap(Str("t1"))) @@ st @@ ("duration" :> Wrap(Num(2)))) :
        st \in OptField("testStatus", {Wrap(Str(x)) : x \in LegacyStatuses}) }
    \cup { Obj(("identifier" :> Wrap(Str("t0"))) @@ ("testStatus" :> Wrap(Str("Success")))),
           Obj("testStatus" :> Wrap(Str("Success"))),
           Obj(("identifier" :> Wrap(Str("t2"))) @@ ("testStatus" :> Wrap(Str("Failure")))
               @@ ("duration" :> Wrap(Str("0.5")))) }

LegacyKid(st) ==
    Obj(("identifier" :> Wrap(Str("k1"))) @@ ("testStatus" :> Wrap(Str(st)))
        @@ ("duration" :> Wrap(Num(1))))

LegacyContainer(su, ch) ==
    Obj(("identifier" :> Wrap(Str("c1"))) @@ ("testStatus" :> Wrap(Str("Failure")))
        @@ ("duration" :> Wrap(Num(4))) @@ su @@ ch)

\* Nodes with a status and a duration of their own and absent, empty or
\* one-element subtests / children.
LegacyContainers ==
    { LegacyContainer("subtests" :> Values(<<>>), NoFields),
      LegacyContainer(NoFields, "children" :> Values(<<>>)),
      LegacyContainer("subtests" :> Values(<<LegacyKid("Success")>>), NoFields),
      LegacyContainer(NoFields, "children" :> Values(<<LegacyKid("Skipped")>>)),
      LegacyContainer("subtests" :> Values(<<LegacyKid("Failure")>>),
                      "children" :> Values(<<LegacyKid("Success")>>)) }

LegacyNested ==
    Obj(("identifier" :> Wrap(Str("c2")))
        @@ ("subtests" :> Values(<<
              Obj(("identifier" :> Wrap(Str("c3")))
                  @@ ("children" :> Values(<<LegacyKid("Failure"), LegacyKid("Success")>>))) >>)))

LegacyNodes == LegacyLeaves \cup LegacyContainers \cup {LegacyNested}

LegacySummaries ==
    { Obj(("name" :> Wrap(Str("MyAppTests"))) @@ ts) :
        ts \in OptField("tests", {Values(vs) : vs \in SeqsUpTo(LegacyNodes, MaxKids)}) }

LegacySecondSummary == Obj("tests" :> Values(<<LegacyKid("Failure")>>))

LegacyData ==
    { Obj("issues" :> Obj("testableSummaries" :> Values(ss))) :
        ss \in {<<>>} \cup {<<su>> : su \in LegacySummaries}
                      \cup {<<su, LegacySecondSummary>> : su \in LegacySummaries} }

\* ---- nested-tree shape: testNodes[]
TestResults == {"Passed", "Failed", "Skipped", "Expected Failure"}

TestCase(nm, id, res, dur) ==
    Obj(("nodeType" :> Str("Test Case")) @@ nm @@ id @@ res @@ dur)

TestCases ==
    { TestCase("name" :> Str("t1"), "nodeIdentifier" :> Str("id1"), res,
               "durationInSeconds" :> Num(2)) :
        res \in OptField("result", {Str(x) : x \in TestResults}) }
    \cup { TestCase(NoFields, NoFields, "result" :> Str("Failed"), NoFields),
           TestCase("name" :> Str("t2"), NoFields, "result" :> Str("Failed"), NoFields),
           TestCase("name" :> Str("t3"), NoFields, "result" :> Str("Skipped"),
                    "durationInSeconds" :> Num(1)) }

InnerNodes ==
    TestCases \cup
    { \* a parameterised test case with an Arguments child
      Obj(("nodeType" :> Str("Test Case")) @@ ("name" :> Str("p1"))
          @@ ("result" :> Str("Failed")) @@ ("durationInSeconds" :> Num(3))
          @@ ("children" :> Arr(<< Obj(("nodeType" :> Str("Arguments"))
                                       @@ ("name" :> Str("arg")) @@ ("result" :> Str("Failed"))) >>))),
      \* a Test Suite nested in a Test Suite
      Obj(("nodeType" :> Str("Test Suite")) @@ ("name" :> Str("Inner"))
          @@ ("children" :> Arr(<< TestCase("name" :> Str("t4"), NoFields,
                                            "result" :> Str("Passed"),
                                            "durationInSeconds" :> Num(1)) >>))),
      \* another container type between the suite and its test case
      Obj(("nodeType" :> Str("Unit test bundle")) @@ ("name" :> Str("B"))
          @@ ("children" :> Arr(<< TestCase("name" :> Str("t5"), NoFields,
                                            "result" :> Str("Failed"),
                                            "durationInSeconds" :> Num(1)) >>))),
      \* a node of no type at all
      Obj("name" :> Str("x")) }

TestSuites ==
    { Obj(("nodeType" :> Str("Test Suite")) @@ ("name" :> Str("Suite")) @@ ch) :
        ch \in OptField("children", {Arr(vs) : vs \in SeqsUpTo(InnerNodes, MaxKids)}) }
    \cup { Obj(("nodeType" :> Str("Test Suite"))
               @@ ("children" :> Arr(<< TestCase("name" :> Str("t7"), NoFields,
                                                 "result" :> Str("Failed"), NoFields) >>))) }

SecondSuite ==
    Obj(("nodeType" :> Str("Test Suite")) @@ ("name" :> Str("Other"))
        @@ ("children" :> Arr(<< TestCase("name" :> Str("t6"), "nodeIdentifier" :> Str("id6"),
                                          "result" :> Str("Passed"),
                                          "durationInSeconds" :> Num(1)) >>)))

Container(type, kids) ==
    Obj(("nodeType" :> Str(type)) @@ ("name" :> Str(type)) @@ ("children" :> Arr(kids)))

TestNodeLists ==
    {<<>>}
    \cup {<<su>> : su \in TestSuites}
    \cup {<<Container("Test Plan", <<Container("Unit test bundle", <<su, SecondSuite>>)>>)>> :
             su \in TestSuites}

\* ---- what xcresulttool reports about one bundle (the environment):
\* `get test-results summary` counts the test cases of `get test-results tests`.
RECURSIVE CasesOf(_)
CasesOf(node) ==
    (IF Dot(node, "nodeType") = Str("Test Case") THEN <<node>> ELSE <<>>)
    \o (IF Truthy(Dot(node, "children"))
        THEN Flatten([i \in 1..Len(Dot(node, "children").items) |->
                         CasesOf(Dot(node, "children").items[i])])
        ELSE <<>>)

CountResult(testNodes, res) ==
    Len(SelectSeq(Flatten([i \in 1..Len(testNodes) |-> CasesOf(testNodes[i])]),
                  LAMBDA c : Dot(c, "result") = Str(res)))

TestFailureOf(c) ==
    Obj(("testIdentifierString" :> Dot(c, "nodeIdentifier"))
        @@ ("failureText" :> Str("XCTAssertTrue failed")))

SummaryOf(testNodes) ==
    LET failedCases == SelectSeq(Flatten([i \in 1..Len(testNodes) |-> CasesOf(testNodes[i])]),
                         LAMBDA c : /\ Dot(c, "result") = Str("Failed")
                                    /\ Truthy(Dot(c, "nodeIdentifier")))
    IN Obj(("devicesAndConfigurations" :> Arr(<<>>))
           @@ ("passedTests"  :> Num(CountResult(testNodes, "Passed")))
           @@ ("failedTests"  :> Num(CountResult(testNodes, "Failed")))
           @@ ("skippedTests" :> Num(CountResult(testNodes, "Skipped")))
           @@ ("startTime" :> Num(1000)) @@ ("finishTime" :> Num(2000))
           @@ ("testFailures" :> Arr([i \in 1..Len(failedCases) |->
                                         TestFailureOf(failedCases[i])])))

\* ---- object-graph shape: actions._values[]
ActionData ==
    { Obj("actions" :> Values(<<>>)),
      Obj("actions" :> Values(<< Obj("actionResult" :> Obj(NoFields)) >>)),
      Obj("actions" :> Values(<<
          Obj(("startedTime" :> Wrap(Str("2024-01-01T10:00:00Z")))
              @@ ("endedTime" :> Wrap(Str("2024-01-01T10:01:00Z")))
              @@ ("actionResult" :> Obj(NoFields))) >>)) }

\* ---- object-graph shape with a tests reference, fetched with --legacy
X15Leaf(st, more) ==
    Obj(("identifier" :> Wrap(Str("t1"))) @@ ("testStatus" :> Wrap(Str(st)))
        @@ ("duration" :> Wrap(Num(2))) @@ more)

SummaryRef == "summaryRef" :> Obj("id" :> Wrap(Str("s1")))

X15Nodes ==
    { X15Leaf("Success", NoFields), X15Leaf("Success", SummaryRef),
      X15Leaf("Failure", NoFields), X15Leaf("Failure", SummaryRef),
      X15Leaf("Skipped", SummaryRef),
      Obj(("identifier" :> Wrap(Str("t0"))) @@ SummaryRef),
      Obj(("identifier" :> Wrap(Str("c1")))
          @@ ("subtests" :> Values(<<X15Leaf("Failure", SummaryRef)>>))
          @@ ("children" :> Values(<<X15Leaf("Success", NoFields)>>))) }

\* What `get --legacy --id s1` prints: absent (the tool fails), or details.
X15Details ==
    {NoFields}
    \cup { "s1" :> d : d \in
            { Null, Obj(NoFields),
              Obj("failureSummaries" :> Values(<<Obj("message" :> Wrap(Str("boom")))>>)),
              Obj("failureSummaries" :> Values(<<Obj(NoFields)>>)),
              Obj("summaries" :> Values(<<Obj("title" :> Wrap(Str("T")))>>)),
              Obj(("failureSummaries" :> Values(<<>>))
                  @@ ("testFailureSummaries" :> Values(<<Obj("message" :> Wrap(Str("m")))>>))),
              Obj("summaries" :> Values(<<Obj(NoFields)>>)),
              Obj("activitySummaries" :> Values(<<Obj("title" :> Wrap(Str("Start Test"))),
                                                  Obj("title" :> Wrap(Str("Assertion failed")))>>)),
              Obj("activitySummaries" :> Values(<<Obj("title" :> Wrap(Str("Start Test")))>>)),
              Obj(("summaries" :> Values(<<Obj(NoFields)>>))
                  @@ ("activitySummaries" :>
                         Values(<<Obj("title" :> Wrap(Str("Assertion failed")))>>))),
              Obj(("failureSummaries" :> Values(<<Obj(NoFields)>>))
                  @@ ("summaries" :> Values(<<Obj("message" :> Wrap(Str("m2")))>>))) } }

X15Data ==
    Obj("actions" :> Values(<<
        Obj(("startedTime" :> Wrap(Str("2024-01-01T10:00:00Z")))
            @@ ("endedTime" :> Wrap(Str("2024-01-01T10:01:00Z")))
            @@ ("actionResult" :> Obj("testsRef" :> Obj("id" :> Wrap(Str("ref"))))))>>))

X15TestDetails ==
    { Obj("summaries" :> Values(<<
          Obj(NoFields),
          Obj("testableSummaries" :> Values(<<
              Obj(("name" :> Wrap(Str("MyAppTests"))) @@ ("tests" :> Values(ts))) >>)) >>)) :
        ts \in SeqsUpTo(X15Nodes, MaxKids) }
    \cup { Obj(NoFields), Null }

\* ---- objects that carry the recognised fields of more than one format
OverlapInputs ==
    LET summary == ("devicesAndConfigurations" :> Arr(<<>>))
                   @@ ("passedTests" :> Num(1)) @@ ("failedTests" :> Num(0))
        actions == "actions" :> Values(<<>>)
        issues  == "issues" :> Obj("testableSummaries" :> Values(<<>>))
    IN { Obj(actions @@ issues), Obj(summary @@ actions), Obj(summary @@ issues),
         Obj(summary @@ actions @@ issues) }

\* An input: the raw data getData returned, and the tool's answers for the
\* same bundle.
RawInputs ==
    { [data |-> d, tool |-> Obj(NoFields)] : d \in ProbeInputs \cup LegacyData \cup ActionData }
    \cup { [data |-> Obj("testNodes" :> Arr(ns)), tool |-> Obj(NoFields)] :
             ns \in TestNodeLists }
    \cup UNION { { [data |-> SummaryOf(ns), tool |-> Obj(t)] :
                     t \in OptField("test-results tests", {Obj("testNodes" :> Arr(ns))}) } :
                   ns \in TestNodeLists }
    \cup { [data |-> X15Data, tool |-> Obj(("ref" :> td) @@ de)] :
             td \in X15TestDetails, de \in X15Details }
    \cup { [data |-> X15Data, tool |-> Obj(NoFields)] }
    \cup { [data |-> d, tool |-> Obj(NoFields)] : d \in OverlapInputs }

\* =================================================================== Spec
\* The registry state machine.  Registration happens while no parse call is
\* in flight: the program registers its parsers synchronously at module load
\* (xcjson.ts) or right after construction, before the first parse.
Init ==
    /\ impl \in {"ParserRegistry", "XCResultParser"}
    /\ parsers = <<>>
    /\ registered = <<>>
    /\ call = IdleCall
    /\ input = <<>>
    /\ output = <<>>
    /\ resultCache = <<>>
    /\ cacheEnabled = TRUE
    /\ pending = <<>>
    /\ completed = <<>>

\* ParserRegistry.register(parser)
Register(p) ==
    /\ impl = "ParserRegistry"
    /\ call.phase = "idle"
    /\ Len(parsers) < MaxParsers
    /\ parsers' = register(parsers, p)
    /\ registered' = Append(registered, p)
    /\ UNCHANGED <<impl, call, input, output>> /\ UNCHANGED cacheVars

\* XCResultParser.registerParser(parser)
RegisterParser(p) ==
    /\ impl = "XCResultParser"
    /\ call.phase = "idle"
    /\ Len(parsers) < MaxParsers
    /\ parsers' = register(parsers, p)
    /\ registered' = Append(registered, p)
    /\ UNCHANGED <<impl, call, input, output>> /\ UNCHANGED cacheVars

\* ParserRegistry.clear()
Clear ==
    /\ impl = "ParserRegistry"
    /\ call.phase = "idle"
    /\ parsers # <<>>
    /\ parsers' = <<>>
    /\ registered' = <<>>
    /\ UNCHANGED <<impl, call, input, output>> /\ UNCHANGED cacheVars

\* ParserRegistry.parse(bundlePath, data), up to its first suspension.
RegistryParse ==
    /\ impl = "ParserRegistry"
    /\ call.phase = "idle"
    /\ \E beh \in BehaviourMaps(parsers) :
          call' = registryLoop([IdleCall EXCEPT !.beh = beh, !.bundlePath = "/test/path"],
                               parsers, 1, <<>>)
    /\ UNCHANGED <<impl, parsers, registered, input, output>> /\ UNCHANGED cacheVars

\* ... resumed when the awaited parser.parse settles.
RegistryParseSettles ==
    /\ impl = "ParserRegistry"
    /\ call.phase = "parsing"
    /\ call' = registryParseSettled(call, parsers)
    /\ UNCHANGED <<impl, parsers, registered, input, output>> /\ UNCHANGED cacheVars

\* XCResultParser.parse(bundlePath), up to await dataSource.getData.
CoreParse ==
    /\ impl = "XCResultParser"
    /\ call.phase = "idle"
    /\ \E path \in BundlePaths, beh \in BehaviourMaps(parsers) :
          call' = IF path = ""
                  THEN [IdleCall EXCEPT !.phase = "done", !.beh = beh,
                                        !.result = Raise(invalidBundle("Path is required"))]
                  ELSE [IdleCall EXCEPT !.phase = "getData", !.beh = beh,
                                        !.bundlePath = path]
    /\ UNCHANGED <<impl, parsers, registered, input, output>> /\ UNCHANGED cacheVars

\* ... resumed when getData settles: with the data, or with an error.
CoreGetDataSettles ==
    /\ impl = "XCResultParser"
    /\ call.phase = "getData"
    /\ \/ call' = coreLoop(call, parsers, 1)
       \/ \E e \in DataSourceErrors(call.bundlePath) :
             call' = [call EXCEPT !.phase = "done", !.dataError = <<e>>,
                                  !.result = Raise(outerCatch(e))]
    /\ UNCHANGED <<impl, parsers, registered, input, output>> /\ UNCHANGED cacheVars

\* ... resumed when the awaited parser.parse settles.
CoreParseSettles ==
    /\ impl = "XCResultParser"
    /\ call.phase = "parsing"
    /\ call' = coreParseSettled(call, parsers)
    /\ UNCHANGED <<impl, parsers, registered, input, output>> /\ UNCHANGED cacheVars

\* The caller receives the settled promise.
Return ==
    /\ call.phase = "done"
    /\ call' = IdleCall
    /\ UNCHANGED <<impl, parsers, registered, input, output>> /\ UNCHANGED cacheVars

Next ==
    \/ \E p \in ParserPool : Register(p)
    \/ \E p \in ParserPool : RegisterParser(p)
    \/ Clear
    \/ RegistryParse
    \/ RegistryParseSettles
    \/ CoreParse
    \/ CoreGetDataSettles
    \/ CoreParseSettles
    \/ Return

Spec == Init /\ [][Next]_vars

\* ================================================================ SpecFmt
\* The format parsers as functions of one raw input: canParse, parse and the
\* conversion of a parsed report applied to every input of RawInputs.
\* Each behaviour applies one of them to its input (and may then convert the
\* report): the functions keep no state between calls.
NoOutput == [op |-> "none"]

Parsed(parser, report, tests) ==
    [op |-> "parse", parser |-> parser, report |-> report, tests |-> tests]

InitFmt ==
    /\ impl = "FormatParser"
    /\ parsers = <<>>
    /\ registered = <<>>
    /\ call = IdleCall
    /\ input \in RawInputs
    /\ output = NoOutput
    /\ resultCache = <<>>
    /\ cacheEnabled = TRUE
    /\ pending = <<>>
    /\ completed = <<>>

\* parser.canParse(data)
CanParse(parser) ==
    /\ output = NoOutput
    /\ output' = [op |-> "canParse", parser |-> parser,
                  value |-> canParse(parser, input.data)]
    /\ UNCHANGED <<impl, parsers, registered, call, input>> /\ UNCHANGED cacheVars

\* The Test Suite nodes createSuitesFromNode turns into suites, in order.
RECURSIVE TestSuiteNodes(_)
TestSuiteNodes(node) ==
    IF Dot(node, "nodeType") = Str("Test Suite") THEN <<node>>
    ELSE IF Truthy(Dot(node, "children"))
    THEN Flatten([i \in 1..Len(Dot(node, "children").items) |->
                     TestSuiteNodes(Dot(node, "children").items[i])])
    ELSE <<>>

AllTestSuiteNodes(testNodes) ==
    Flatten([i \in 1..Len(testNodes) |-> TestSuiteNodes(testNodes[i])])

\* new LegacyFormatParser().parse(bundlePath, data), after canParse accepted
LegacyFormatParserParse ==
    /\ output = NoOutput
    /\ Truthy(LegacyFormatParser_canParse(input.data))
    /\ LET summaries == DotPath(input.data, <<"issues", "testableSummaries", "_values">>).items
       IN output' = Parsed("LegacyFormatParser", LegacyFormatParser_parse(input.data),
                           Flatten([i \in 1..Len(summaries) |->
                                       LegacyFormatParser_allTests(summaries[i])]))
    /\ UNCHANGED <<impl, parsers, registered, call, input>> /\ UNCHANGED cacheVars

\* new Xcode16Parser().parse(bundlePath, data)
Xcode16ParserParse ==
    /\ output = NoOutput
    /\ Truthy(Xcode16Parser_canParse(input.data))
    /\ LET suiteNodes == AllTestSuiteNodes(Dot(input.data, "testNodes").items)
       IN output' = Parsed("Xcode16Parser", Xcode16Parser_parse(input.data),
                           Flatten([i \in 1..Len(suiteNodes) |->
                                       Xcode16Parser_extractTestCases(suiteNodes[i])]))
    /\ UNCHANGED <<impl, parsers, registered, call, input>> /\ UNCHANGED cacheVars

\* new Xcode16FormatParser().parse(bundlePath, data)
Xcode16FormatParserParse ==
    /\ output = NoOutput
    /\ Truthy(Xcode16FormatParser_canParse(input.data))
    /\ LET testDetails == Xcode16FormatParser_getTestDetails(input.tool)
           suiteNodes  == AllTestSuiteNodes(Or(Dot(testDetails, "testNodes"), Arr(<<>>)).items)
           testFailures == Or(Dot(input.data, "testFailures"), Arr(<<>>)).items
       IN output' = Parsed("Xcode16FormatParser",
                           Xcode16FormatParser_parse(input.data, input.tool),
                           Flatten([i \in 1..Len(suiteNodes) |->
                               Xcode16FormatParser_extractTestCases(suiteNodes[i],
                                                                    testFailures)]))
    /\ UNCHANGED <<impl, parsers, registered, call, input>> /\ UNCHANGED cacheVars

\* new Xcode15FormatParser().parse(bundlePath, data)
Xcode15FormatParserParse ==
    /\ output = NoOutput
    /\ Truthy(Xcode15FormatParser_canParse(input.data))
    /\ output' = Parsed("Xcode15FormatParser", Xcode15FormatParser_parse(input.data), <<>>)
    /\ UNCHANGED <<impl, parsers, registered, call, input>> /\ UNCHANGED cacheVars

\* new LegacyParser().parse(bundlePath, data), to the settling of its promise:
\* each parseSuite settles with one of the orders its collectTests calls allow.
LegacyParserParse ==
    /\ output = NoOutput
    /\ Truthy(LegacyParser_canParse(input.data))
    /\ LET summaries == LegacyParser_testSummaries(input.data)
       IN \E collected \in Choices([i \in 1..Len(summaries) |->
                                       LegacyParser_allTests(summaries[i])]) :
             output' = Parsed("LegacyParser", LegacyParser_parse(input.data, collected),
                              Flatten(collected))
    /\ UNCHANGED <<impl, parsers, registered, call, input>> /\ UNCHANGED cacheVars

\* new Xcode15LegacyParser().parse(bundlePath, data), to the settling of its
\* promise: rejected if the tests reference cannot be fetched.
Xcode15LegacyParserParse ==
    /\ output = NoOutput
    /\ Truthy(Xcode15LegacyParser_canParse(input.data))
    /\ LET summaries == Xcode15LegacyParser_testableSummaries(input.data, input.tool)
       IN IF Xcode15LegacyParser_rejects(input.data, input.tool)
          THEN output' = [op |-> "rejected", parser |-> "Xcode15LegacyParser"]
          ELSE \E collected \in Choices([i \in 1..Len(summaries) |->
                       Xcode15LegacyParser_allTests(summaries[i], input.tool)]) :
                  output' = Parsed("Xcode15LegacyParser",
                                   Xcode15LegacyParser_parse(input.data, input.tool, collected),
                                   Flatten(collected))
    /\ UNCHANGED <<impl, parsers, registered, call, input>> /\ UNCHANGED cacheVars

\* parseLegacyFormat(summary, bundlePath) of the older parseXCResult, on the
\* object `get object --legacy` printed, to the settling of its promise.
ParseLegacyFormat ==
    /\ output = NoOutput
    /\ input.data.t = "object"
    /\ LET summaries == testableSummariesOf(input.data, input.tool)
       IN \E collected \in Choices([i \in 1..Len(summaries) |->
                                       allTestsOf(summaries[i], input.tool)]) :
             output' = Parsed("parseLegacyFormat",
                              parseLegacyFormat(input.data, input.tool, collected),
                              Flatten(collected))
    /\ UNCHANGED <<impl, parsers, registered, call, input>> /\ UNCHANGED cacheVars

\* The parsers registered with parserRegistry, whose reports parseXCResult converts.
RegistryParsers == {"Xcode16Parser", "Xcode15LegacyParser", "LegacyParser"}

\* convertToPublicFormat(parsedReport) in parseXCResult
ConvertToPublicFormat ==
    /\ output.op = "parse"
    /\ output.parser \in RegistryParsers
    /\ LET report == convertToPublicFormat(output.report)
       IN output' = [op |-> "convert", parser |-> output.parser, report |-> report,
                     tests |-> Flatten([i \in 1..Len(report.suites) |->
                                  report.suites[i].failed \o report.suites[i].passed])]
    /\ UNCHANGED <<impl, parsers, registered, call, input>> /\ UNCHANGED cacheVars

NextFmt ==
    \/ \E parser \in FormatParsers : CanParse(parser)
    \/ LegacyFormatParserParse
    \/ Xcode16ParserParse
    \/ Xcode16FormatParserParse
    \/ Xcode15FormatParserParse
    \/ LegacyParserParse
    \/ Xcode15LegacyParserParse
    \/ ParseLegacyFormat
    \/ ConvertToPublicFormat

SpecFmt == InitFmt /\ [][NextFmt]_vars

\* ================================================================ SpecCli
\* The command line: processXCResult -> parseXCResult (api) ->
\* XCResultParser.parse over XCResultToolDataSource and the default parsers,
\* for one bundle path in one environment.

\* String.prototype.endsWith
EndsWith(str, suffix) ==
    /\ Len(str) >= Len(suffix)
    /\ SubSeq(str, Len(str) - Len(suffix) + 1, Len(str)) = suffix

\* XCResultError.xcresulttoolNotFound()
xcresulttoolNotFound ==
    [cls |-> "XCResultError", code |-> "XCRESULTTOOL_NOT_FOUND",
     message |-> <<"xcresulttool not found. Ensure Xcode is installed.">>,
     originalError |-> <<>>]

\* The error execa rejects with when the command exits with a failure.
CommandFailed ==
    [cls |-> "Error", code |-> "", message |-> <<"Command failed: xcrun xcresulttool">>,
     originalError |-> <<>>]

\* The three xcresulttool commands executeXCResultTool may issue.
Commands == {"test-results summary", "object", "object --legacy"}

\* detectCapabilities(): the capabilities of a tool of the given version.
detectCapabilities(version) ==
    [version |-> version,
     supportsTestResults |-> version >= 23000,
     supportsGetObject |-> version >= 22000,
     supportsLegacy |-> TRUE]

\* executeXCResultTool(bundlePath, capabilities): TRUE when one of the
\* commands it tries succeeds, FALSE when the last one throws.
executeXCResultTool(capabilities, failing) ==
    IF capabilities.supportsTestResults /\ "test-results summary" \notin failing THEN TRUE
    ELSE IF capabilities.supportsGetObject /\ "object" \notin failing THEN TRUE
    ELSE "object --legacy" \notin failing

GotData == [kind |-> "data"]

\* XCResultToolDataSource.getData(bundlePath) on an empty cache: how its
\* promise settles in environment env.
getData(env) ==
    IF EndsWith(env.path, ".json")
    THEN (IF env.readable THEN GotData ELSE Raise(invalidBundle(env.path)))
    ELSE IF ~EndsWith(env.path, ".xcresult") THEN Raise(invalidBundle(env.path))
    ELSE IF ~env.xcrun THEN Raise(xcresulttoolNotFound)
    ELSE IF executeXCResultTool(detectCapabilities(env.version), env.failing)
    THEN GotData
    ELSE Raise(xcresulttoolFailed(CommandFailed))

\* Environments: the path given, whether anything exists at that path,
\* whether the file can be read and parsed as JSON, whether
\* `xcrun xcresulttool version` runs, the version it prints (0: no version in
\* the output), and the commands that fail on the bundle.  Nothing can be read
\* from a path where nothing exists, and every command fails on it.
Healthy ==
    [path |-> "/t/App.xcresult", exists |-> TRUE, readable |-> TRUE, xcrun |-> TRUE,
     version |-> 23000, failing |-> {}]

Environments ==
    { [Healthy EXCEPT !.path = "/t/report.json", !.readable = r] : r \in BOOLEAN }
    \cup { [Healthy EXCEPT !.path = "/t/report.json", !.exists = FALSE, !.readable = FALSE,
                           !.failing = Commands] }
    \cup { [Healthy EXCEPT !.path = "/t/results.txt"] }
    \cup { [Healthy EXCEPT !.xcrun = x, !.version = v, !.failing = f] :
             x \in BOOLEAN, v \in {0, 22000, 23000}, f \in SUBSET Commands }
    \cup { [Healthy EXCEPT !.exists = FALSE, !.readable = FALSE, !.xcrun = x,
                           !.version = v, !.failing = Commands] :
             x \in BOOLEAN, v \in {0, 22000, 23000} }

\* Every raw input in the healthy environment, and the probe inputs in every
\* environment.
CliInputs ==
    { [data |-> r.data, tool |-> r.tool, env |-> Healthy] : r \in RawInputs }
    \cup { [data |-> d, tool |-> Obj(NoFields), env |-> e] :
             d \in ProbeInputs, e \in Environments }

InitCli ==
    /\ impl = "XCResultParser"
    /\ parsers = <<>>
    /\ registered = <<>>
    /\ call = IdleCall
    /\ input \in CliInputs
    /\ output = NoOutput
    /\ resultCache = <<>>
    /\ cacheEnabled = TRUE
    /\ pending = <<>>
    /\ completed = <<>>

\* What each default parser does with the data: canParse decides, and the
\* parse of a default parser does not throw.
BehaviourOn(data) ==
    [p \in ParserPool |->
        IF p \in {"Xcode16FormatParser", "Xcode15FormatParser", "LegacyFormatParser"}
           /\ Truthy(canParse(p, data))
        THEN "acceptOk" ELSE "reject"]

\* parseXCResult(bundlePath, options): a new data source and a new
\* XCResultParser with the default parsers registered, then parser.parse up
\* to its await of dataSource.getData.
ParseXCResult ==
    /\ call.phase = "idle"
    /\ output = NoOutput
    /\ parsers' = register(register(register(<<>>, createFormatParsers[1]),
                                    createFormatParsers[2]), createFormatParsers[3])
    /\ registered' = createFormatParsers
    /\ call' = [IdleCall EXCEPT !.phase = "getData", !.beh = BehaviourOn(input.data),
                                !.bundlePath = input.env.path]
    /\ UNCHANGED <<impl, input, output>> /\ UNCHANGED cacheVars

\* ... resumed when XCResultToolDataSource.getData settles.
GetDataSettles ==
    /\ call.phase = "getData"
    /\ call' = IF getData(input.env) = GotData
               THEN coreLoop(call, parsers, 1)
               ELSE [call EXCEPT !.phase = "done",
                                 !.dataError = <<getData(input.env).error>>,
                                 !.result = Raise(outerCatch(getData(input.env).error))]
    /\ UNCHANGED <<impl, parsers, registered, input, output>> /\ UNCHANGED cacheVars

\* The Report the parser named in a settled call resolved with.
ReportBy(p) ==
    CASE p = "Xcode16FormatParser" -> Xcode16FormatParser_parse(input.data, input.tool)
      [] p = "Xcode15FormatParser" -> Xcode15FormatParser_parse(input.data)
      [] OTHER                     -> LegacyFormatParser_parse(input.data)

\* report.suites.some((suite) => suite.failed.length > 0)
hasFailures(report) ==
    \E i \in 1..Len(report.suites) : Len(report.suites[i].failed) > 0

\* The catch of processXCResult: the exit code for an error.
exitCode(error) ==
    IF error.cls = "XCResultError"
    THEN (IF error.code = "INVALID_BUNDLE" THEN 2 ELSE 1)
    ELSE 1

\* processXCResult, from the settling of parseXCResult to process.exit.
ProcessExit ==
    /\ call.phase = "done"
    /\ output = NoOutput
    /\ output' = IF call.result.kind = "report"
                 THEN [op |-> "exit", parser |-> call.result.by,
                       report |-> ReportBy(call.result.by),
                       code |-> IF hasFailures(ReportBy(call.result.by)) THEN 10 ELSE 0]
                 ELSE [op |-> "exit", parser |-> "none", error |-> call.result.error,
                       code |-> exitCode(call.result.error)]
    /\ UNCHANGED <<impl, parsers, registered, call, input>> /\ UNCHANGED cacheVars

NextCli ==
    \/ ParseXCResult
    \/ GetDataSettles
    \/ CoreParseSettles
    \/ ProcessExit

SpecCli == InitCli /\ [][NextCli]_vars

\* ============================================================== SpecCache
\* The result caches in front of xcresulttool: the module-level Map of
\* xcjson.ts with its cacheEnabled flag, the LRUCache of the later xcjson
\* module, and the LRUCache of an XCResultToolDataSource.

CacheImpls == {"xcjson", "xcjson.LRUCache", "XCResultToolDataSource"}

\* ---- Map
Map_has(map, key) == \E i \in 1..Len(map) : map[i][1] = key

Map_get(map, key) ==
    IF Map_has(map, key)
    THEN (CHOOSE e \in {map[i] : i \in 1..Len(map)} : e[1] = key)[2]
    ELSE Undefined

\* set keeps the position of a key the map already holds.
Map_set(map, key, value) ==
    IF Map_has(map, key)
    THEN [i \in 1..Len(map) |-> IF map[i][1] = key THEN <<key, value>> ELSE map[i]]
    ELSE Append(map, <<key, value>>)

Map_delete(map, key) == SelectSeq(map, LAMBDA e : e[1] # key)

\* ---- LRUCache
maxSize == 100

\* (mutant) get returns the value and leaves the order as it is
LRUCache_getInPlace(cache, key) == cache

\* get: the entry moves to the end (most recently used).
LRUCache_get(cache, key) ==
    IF ~Map_has(cache, key) THEN cache
    ELSE Map_set(Map_delete(cache, key), key, Map_get(cache, key))

\* (mutant) set never removes an entry
LRUCache_setUnbounded(capacity, cache, key, value) ==
    Map_set(Map_delete(cache, key), key, value)

\* set on a cache constructed with the capacity: the entry moves to the end;
\* the oldest entry goes when the size is over the capacity.
LRUCache_setWithin(capacity, cache, key, value) ==
    LET added == Map_set(Map_delete(cache, key), key, value)
    IN IF Len(added) > capacity THEN Tail(added) ELSE added

\* set on a cache constructed with the default capacity
LRUCache_set(cache, key, value) == LRUCache_setWithin(maxSize, cache, key, value)

\* ---- requests and cache keys
BundlePath  == "/t/App.xcresult"
OtherBundle == "/t/Other.xcresult"

getSummaryOf(bundlePath) == [fn |-> "getSummary", bundlePath |-> bundlePath, id |-> ""]
getTestDetailsOf(bundlePath, testId) ==
    [fn |-> "getTestDetails", bundlePath |-> bundlePath, id |-> testId]
getDataOf(bundlePath) == [fn |-> "getData", bundlePath |-> bundlePath, id |-> ""]

cacheKey(request) ==
    CASE impl = "xcjson" /\ request.fn = "getSummary" -> "summary:" \o request.bundlePath
      [] impl = "xcjson" /\ request.fn = "getTestDetails" ->
             "detail:" \o request.bundlePath \o ":" \o request.id
      [] impl = "xcjson.LRUCache" /\ request.fn = "getTestDetails" ->
             request.bundlePath \o ":" \o request.id
      [] OTHER -> request.bundlePath

\* The claims' notion of a key: the function called and its arguments.
RequestKey(request) == request.fn \o "(" \o request.bundlePath \o "," \o request.id \o ")"

\* What xcresulttool may print for a request.
Payloads(request) ==
    { Obj(("for" :> Str(RequestKey(request))) @@ ("rev" :> Num(n))) : n \in {1, 2} }

\* ---- the cache check at the start of a fetch
\* xcjson.ts and the data source ask has(); the later xcjson module asks
\* whether the value get() returned is truthy.
CacheHit(request) ==
    /\ cacheEnabled
    /\ IF impl = "xcjson.LRUCache"
       THEN Truthy(Map_get(resultCache, cacheKey(request)))
       ELSE Map_has(resultCache, cacheKey(request))

\* The cache after the check: LRUCache.get reorders, has() does not.
CacheAfterCheck(request) ==
    CASE impl = "xcjson" -> resultCache
      [] impl = "xcjson.LRUCache" ->
             IF cacheEnabled THEN LRUCache_get(resultCache, cacheKey(request))
             ELSE resultCache
      [] OTHER -> IF CacheHit(request) THEN LRUCache_get(resultCache, cacheKey(request))
                  ELSE resultCache

CacheSetNever(cache, key, value) == cache

CacheSet(cache, key, value) ==
    IF impl = "xcjson" THEN Map_set(cache, key, value) ELSE LRUCache_set(cache, key, value)

storedAlways(cache, enabled, key, value) == CacheSet(cache, key, value)

\* if (cacheEnabled) { cache.set(cacheKey, result) } after the awaited fetch
stored(cache, enabled, key, value) ==
    IF enabled THEN CacheSet(cache, key, value) ELSE cache

\* ---- the record of a finished call; uncached tells whether caching was
\* disabled when the call was made ("atCall"), was disabled while the call
\* was in flight ("inFlight"), or neither ("never").
Returned(request, value, threw, invoked, expected, uncached) ==
    [op |-> "return", request |-> request, value |-> value, threw |-> threw,
     invoked |-> invoked, expected |-> expected, uncached |-> uncached]

\* ghost: the payload the request last completed with, if any.
Expected(request) ==
    IF RequestKey(request) \in DOMAIN completed
    THEN <<completed[RequestKey(request)]>> ELSE <<>>

\* ghost: the requests whose cache entry a set for key leaves in place.
Kept(cache, key, value) ==
    { k \in DOMAIN completed :
        \A r \in {getSummaryOf(BundlePath), getSummaryOf(OtherBundle),
                  getTestDetailsOf(BundlePath, "t1"), getDataOf(BundlePath),
                  getDataOf(OtherBundle)} :
           RequestKey(r) = k => Map_has(CacheSet(cache, key, value), cacheKey(r)) }

InitCache ==
    /\ impl \in CacheImpls
    /\ parsers = <<>>
    /\ registered = <<>>
    /\ call = IdleCall
    /\ input = <<>>
    /\ output = NoOutput
    /\ resultCache = <<>>
    /\ cacheEnabled \in (IF impl = "XCResultToolDataSource" THEN BOOLEAN ELSE {TRUE})
    /\ pending = <<>>
    /\ completed = NoFields

\* A call of a fetch function up to its first await: it returns the cached
\* value, or goes on to detect the tool's capabilities.
Called(request) ==
    /\ resultCache' = CacheAfterCheck(request)
    /\ IF CacheHit(request)
       THEN /\ output' = Returned(request, Map_get(resultCache, cacheKey(request)), FALSE,
                                  FALSE, Expected(request), "never")
            /\ UNCHANGED pending
       ELSE /\ Len(pending) < MaxPending
            /\ pending' = Append(pending, [request |-> request, stage |-> "capabilities",
                                           expected |-> Expected(request),
                                           uncached |-> IF cacheEnabled THEN "never" ELSE "atCall"])
            /\ UNCHANGED output
    /\ UNCHANGED <<impl, parsers, registered, call, input, cacheEnabled, completed>>

\* getSummary(bundlePath)
GetSummary(bundlePath) ==
    /\ impl \in {"xcjson", "xcjson.LRUCache"}
    /\ Called(getSummaryOf(bundlePath))

\* getTestDetails(bundlePath, testId)
GetTestDetails(bundlePath, testId) ==
    /\ impl \in {"xcjson", "xcjson.LRUCache"}
    /\ Called(getTestDetailsOf(bundlePath, testId))

\* dataSource.getData(bundlePath), for a path that ends in .xcresult
GetData(bundlePath) ==
    /\ impl = "XCResultToolDataSource"
    /\ Called(getDataOf(bundlePath))

Without(seq, i) == SubSeq(seq, 1, i - 1) \o SubSeq(seq, i + 1, Len(seq))

\* The awaited capability detection settles and the fetch issues its
\* xcresulttool command.
CapabilitiesSettle(i) ==
    /\ i \in 1..Len(pending)
    /\ pending[i].stage = "capabilities"
    /\ pending' = [pending EXCEPT ![i].stage = "execa"]
    /\ UNCHANGED <<impl, parsers, registered, call, input, output,
                   resultCache, cacheEnabled, completed>>

\* The awaited xcresulttool command settles: with a payload, which is stored
\* if caching is enabled now, or with a failure, which getSummary and getData
\* rethrow and getTestDetails answers with null.
ExecaSettles(i) ==
    /\ i \in 1..Len(pending)
    /\ pending[i].stage = "execa"
    /\ LET p == pending[i]
           key == cacheKey(p.request)
       IN \/ \E result \in Payloads(p.request) :
                /\ resultCache' = stored(resultCache, cacheEnabled, key, result)
                /\ completed' =
                      IF cacheEnabled
                      THEN (RequestKey(p.request) :> result)
                           @@ [k \in Kept(resultCache, key, result) |-> completed[k]]
                      ELSE completed
                /\ output' = Returned(p.request, result, FALSE, TRUE, p.expected, p.uncached)
          \/ /\ output' = Returned(p.request,
                                   IF p.request.fn = "getTestDetails" THEN Null ELSE Undefined,
                                   p.request.fn # "getTestDetails", TRUE, p.expected,
                                   p.uncached)
             /\ UNCHANGED <<resultCache, completed>>
    /\ pending' = Without(pending, i)
    /\ UNCHANGED <<impl, parsers, registered, call, input, cacheEnabled>>

\* clearCache()
ClearCache ==
    /\ resultCache' = <<>>
    /\ completed' = NoFields
    /\ UNCHANGED <<impl, parsers, registered, call, input, output, cacheEnabled, pending>>

\* disableCache(): the flag goes off, then clearCache().
DisableCache ==
    /\ impl \in {"xcjson", "xcjson.LRUCache"}
    /\ cacheEnabled' = FALSE
    /\ resultCache' = <<>>
    /\ completed' = NoFields
    /\ pending' = [i \in 1..Len(pending) |-> [pending[i] EXCEPT !.uncached = "inFlight"]]
    /\ UNCHANGED <<impl, parsers, registered, call, input, output>>

\* enableCache()
EnableCache ==
    /\ impl \in {"xcjson", "xcjson.LRUCache"}
    /\ cacheEnabled' = TRUE
    /\ UNCHANGED <<impl, parsers, registered, call, input, output,
                   resultCache, pending, completed>>

NextCache ==
    \/ \E bundlePath \in {BundlePath, OtherBundle} : GetSummary(bundlePath)
    \/ GetTestDetails(BundlePath, "t1")
    \/ \E bundlePath \in {BundlePath, OtherBundle} : GetData(bundlePath)
    \/ \E i \in 1..MaxPending : CapabilitiesSettle(i)
    \/ \E i \in 1..MaxPending : ExecaSettles(i)
    \/ ClearCache
    \/ DisableCache
    \/ EnableCache

SpecCache == InitCache /\ [][NextCache]_vars

\* ========================================================= SpecCollect
\* parseSuite and collectTests of src/parser.ts and of Xcode15LegacyParser as
\* the promises they are: collectTests awaits extractTestResult of its node,
\* then Promise.all over its subtests, then Promise.all over its children;
\* Promise.all(values.map(collectTests)) calls collectTests for every member
\* before any of them is awaited.
CollectImpls == {"parser.ts", "Xcode15LegacyParser"}

\* A position in the tree of one summary: the steps from the summary down.
StepInto(collection, index) == [collection |-> collection, index |-> index]

\* node[collection]?._values, no members when it is absent
valuesOf(node, collection) ==
    LET values == OptPath(node, <<collection, "_values">>)
    IN IF Truthy(values) THEN values.items ELSE <<>>

RECURSIVE NodeAt(_, _)
NodeAt(node, path) ==
    IF path = <<>> THEN node
    ELSE NodeAt(valuesOf(node, Head(path).collection)[Head(path).index], Tail(path))

\* values.map(...): the members of a collection of the node at path, in order.
membersAt(summary, path, collection) ==
    [j \in 1..Len(valuesOf(NodeAt(summary, path), collection)) |->
        Append(path, StepInto(collection, j))]

\* if (status === 'Failure' && test.summaryRef?.id?._value) in a node that
\* is no container: extractTestResult calls getTestDetails.
callsGetTestDetails(test) ==
    /\ ~IsContainer(test)
    /\ Or(OptPath(test, <<"testStatus", "_value">>), Str("Unknown")) = Str("Failure")
    /\ Truthy(OptPath(test, <<"summaryRef", "id", "_value">>))

detailKey(test) ==
    "detail:" \o "/t/App.xcresult" \o ":" \o OptPath(test, <<"summaryRef", "id", "_value">>).s

\* getTestDetails of xcjson.ts returns a cached value without a command;
\* Xcode15LegacyParser.getTestDetails has no cache.
issuesCommand(test, cache) ==
    /\ callsGetTestDetails(test)
    /\ ~(impl = "parser.ts" /\ cacheEnabled /\ Map_has(cache, detailKey(test)))

\* The fetches the calls of collectTests for the paths start, in call order.
startedBy(summary, paths, cache) ==
    SelectSeq(paths, LAMBDA p : issuesCommand(NodeAt(summary, p), cache))

IsMember(seq, x) == \E i \in 1..Len(seq) : seq[i] = x

extractTestResultOf(test, tool) ==
    IF impl = "parser.ts" THEN extractTestResult(test, tool)
    ELSE Xcode15LegacyParser_extractTestResult(test, tool)

CollectNodes ==
    { X15Leaf("Success", NoFields), X15Leaf("Failure", NoFields),
      X15Leaf("Failure", SummaryRef),
      Obj(("identifier" :> Wrap(Str("c1")))
          @@ ("subtests" :> Values(<<X15Leaf("Failure", SummaryRef)>>))
          @@ ("children" :> Values(<<X15Leaf("Failure", SummaryRef)>>))),
      Obj(("identifier" :> Wrap(Str("c2")))
          @@ ("subtests" :> Values(<<>>))
          @@ ("children" :> Values(<<X15Leaf("Success", NoFields),
                                     X15Leaf("Failure", SummaryRef)>>))) }

CollectInputs ==
    { [data |-> Obj(("name" :> Wrap(Str("MyAppTests"))) @@ ts), tool |-> Obj(de)] :
        ts \in OptField("tests", {Values(vs) : vs \in SeqsUpTo(CollectNodes, MaxKids)}),
        de \in {NoFields,
                "s1" :> Obj("failureSummaries" :> Values(<<Obj("message" :> Wrap(Str("boom")))>>))} }

NotCalled == [op |-> "none", at |-> NoFields]

InitCollect ==
    /\ impl \in CollectImpls
    /\ parsers = <<>>
    /\ registered = <<>>
    /\ call = NotCalled
    /\ input \in CollectInputs
    /\ output = NoOutput
    /\ resultCache = <<>>
    /\ cacheEnabled = TRUE
    /\ pending = <<>>
    /\ completed = <<>>

\* parseSuite(summary, bundlePath) up to its await: collectTests is called
\* for every test of the summary.
ParseSuite ==
    /\ call.op = "none"
    /\ LET paths == membersAt(input.data, <<>>, "tests")
       IN /\ call' = [op |-> "parseSuite",
                      at |-> [p \in {paths[j] : j \in 1..Len(paths)} |-> "extractTestResult"]]
          /\ pending' = startedBy(input.data, paths, resultCache)
    /\ output' = [op |-> "collecting", allTests |-> <<>>]
    /\ UNCHANGED <<impl, parsers, registered, input, resultCache, cacheEnabled, completed>>

\* collectTests goes on to a collection of its node: it calls collectTests
\* for every member and awaits them all, or it returns.
awaiting(at, path, collection) ==
    LET paths == membersAt(input.data, path, collection)
    IN [p \in (DOMAIN at) \cup {paths[j] : j \in 1..Len(paths)} |->
          IF p = path THEN collection
          ELSE IF p \in DOMAIN at THEN at[p] ELSE "extractTestResult"]

\* The awaited extractTestResult of the node at path settles, after the
\* command it issued has: the result is pushed and collectTests goes on to
\* the subtests, else to the children, else returns.
ExtractTestResultSettles(path) ==
    /\ call.op = "parseSuite"
    /\ path \in DOMAIN call.at
    /\ call.at[path] = "extractTestResult"
    /\ LET node    == NodeAt(input.data, path)
           fetched == IsMember(pending, path)
           details == execa(input.tool, OptPath(node, <<"summaryRef", "id", "_value">>).s)
           cache   == IF fetched /\ impl = "parser.ts" /\ details # ExecaError
                      THEN stored(resultCache, cacheEnabled, detailKey(node), details)
                      ELSE resultCache
           next    == IF Truthy(OptPath(node, <<"subtests", "_values">>)) THEN "subtests"
                      ELSE IF Truthy(OptPath(node, <<"children", "_values">>)) THEN "children"
                      ELSE "done"
           others  == SelectSeq(pending, LAMBDA p : p # path)
       IN /\ resultCache' = cache
          /\ output' = [output EXCEPT !.allTests = @ \o extractTestResultOf(node, input.tool)]
          /\ IF next = "done"
             THEN /\ call' = [call EXCEPT !.at[path] = "done"]
                  /\ pending' = others
             ELSE /\ call' = [call EXCEPT !.at = awaiting(call.at, path, next)]
                  /\ pending' = others \o startedBy(input.data,
                                                    membersAt(input.data, path, next), cache)
    /\ UNCHANGED <<impl, parsers, registered, input, cacheEnabled, completed>>

\* The awaited Promise.all over the subtests or the children of the node at
\* path settles, every member having returned.
PromiseAllSettles(path) ==
    /\ call.op = "parseSuite"
    /\ path \in DOMAIN call.at
    /\ call.at[path] \in {"subtests", "children"}
    /\ LET node  == NodeAt(input.data, path)
           paths == membersAt(input.data, path, call.at[path])
           next  == IF call.at[path] = "subtests"
                       /\ Truthy(OptPath(node, <<"children", "_values">>))
                    THEN "children" ELSE "done"
       IN /\ \A j \in 1..Len(paths) : call.at[paths[j]] = "done"
          /\ IF next = "done"
             THEN /\ call' = [call EXCEPT !.at[path] = "done"]
                  /\ UNCHANGED pending
             ELSE /\ call' = [call EXCEPT !.at = awaiting(call.at, path, next)]
                  /\ pending' = pending \o startedBy(input.data,
                                            membersAt(input.data, path, next), resultCache)
    /\ UNCHANGED <<impl, parsers, registered, input, output, resultCache, cacheEnabled,
                   completed>>

\* parseSuite's Promise.all settles and it returns the suite.
ParseSuiteSettles ==
    /\ call.op = "parseSuite"
    /\ \A p \in DOMAIN call.at : call.at[p] = "done"
    /\ call' = [call EXCEPT !.op = "settled"]
    /\ output' = Parsed(impl, IF impl = "parser.ts"
                              THEN parseSuite(input.data, output.allTests)
                              ELSE Xcode15LegacyParser_parseSuite(input.data, output.allTests),
                        output.allTests)
    /\ UNCHANGED <<impl, parsers, registered, input, resultCache, cacheEnabled, pending,
                   completed>>

CollectPaths == DOMAIN call.at

NextCollect ==
    \/ ParseSuite
    \/ \E path \in CollectPaths : ExtractTestResultSettles(path)
    \/ \E path \in CollectPaths : PromiseAllSettles(path)
    \/ ParseSuiteSettles

SpecCollect == InitCollect /\ [][NextCollect]_vars

\* ============================================================= SpecLru
\* One LRUCache object (unnamed/part_005) constructed with a capacity, under
\* any sequence of set, get, has and clear. call holds the object's maxSize,
\* resultCache its Map; completed is a ghost: a clock that ticks with every
\* set and every get that finds its key, and the tick of each key's last use.
MaxCapacity == 2
MaxOps == 5

LruKeys == {"a", "b", "c"}

Map_keys(map) == {map[i][1] : i \in 1..Len(map)}

InitLru ==
    /\ impl = "LRUCache"
    /\ parsers = <<>>
    /\ registered = <<>>
    /\ call \in {[maxSize |-> n] : n \in 0..MaxCapacity}
    /\ input = <<>>
    /\ output = NoOutput
    /\ resultCache = <<>>
    /\ cacheEnabled = TRUE
    /\ pending = <<>>
    /\ completed = [clock |-> 0, lastUse |-> [k \in LruKeys |-> 0]]

\* cache.set(key, value)
LruSet(key) ==
    /\ completed.clock < MaxOps
    /\ resultCache' = LRUCache_setWithin(call.maxSize, resultCache, key,
                                         Num(completed.clock + 1))
    /\ output' = [op |-> "set", key |-> key, before |-> resultCache]
    /\ completed' = [clock |-> completed.clock + 1,
                     lastUse |-> [completed.lastUse EXCEPT ![key] = completed.clock + 1]]
    /\ UNCHANGED <<impl, parsers, registered, call, input, cacheEnabled, pending>>

\* cache.get(key)
LruGet(key) ==
    /\ Map_has(resultCache, key) => completed.clock < MaxOps
    /\ resultCache' = LRUCache_get(resultCache, key)
    /\ output' = [op |-> "get", key |-> key, before |-> resultCache,
                  returned |-> Map_get(resultCache, key)]
    /\ completed' = IF Map_has(resultCache, key)
                    THEN [clock |-> completed.clock + 1,
                          lastUse |-> [completed.lastUse EXCEPT ![key] = completed.clock + 1]]
                    ELSE completed
    /\ UNCHANGED <<impl, parsers, registered, call, input, cacheEnabled, pending>>

\* cache.has(key)
LruHas(key) ==
    /\ output' = [op |-> "has", key |-> key, before |-> resultCache,
                  returned |-> Bool(Map_has(resultCache, key))]
    /\ UNCHANGED <<impl, parsers, registered, call, input, resultCache, cacheEnabled,
                   pending, completed>>

\* cache.clear()
LruClear ==
    /\ resultCache' = <<>>
    /\ output' = [op |-> "clear", key |-> "", before |-> resultCache]
    /\ UNCHANGED <<impl, parsers, registered, call, input, cacheEnabled, pending,
                   completed>>

NextLru ==
    \/ \E key \in LruKeys : LruSet(key)
    \/ \E key \in LruKeys : LruGet(key)
    \/ \E key \in LruKeys : LruHas(key)
    \/ LruClear

SpecLru == InitLru /\ [][NextLru]_vars

\* ============================================================ SpecXcjson
\* getSummary and clearCache of src/xcjson.ts with both of the module's
\* caches: call holds the XcrunCache object `cache` that checkCapabilities
\* fills, resultCache the Map of results. input holds what the installed
\* xcresulttool prints: its two help texts and its answer to each command.
\* completed is a ghost that tells whether clearCache() ran after the last
\* getSummary call.
NoCapabilities ==
    [supportsTestReport |-> Undefined, supportsObject |-> Undefined,
     commandFormat |-> Undefined]

\* const { stdout: mainHelp } = ...; getHelp = '' when `get --help` fails;
\* the capabilities checkCapabilities derives from the two help texts.
capabilitiesOf(mainHelp, getHelp) ==
    LET help == IF getHelp = ExecaError THEN "" ELSE getHelp.s
        supportsTestReport == Includes(help, "test-results")
        supportsObject == Includes(help, "object") \/ Includes(mainHelp.s, "object")
    IN [supportsTestReport |-> Bool(supportsTestReport),
        supportsObject |-> Bool(supportsObject),
        commandFormat |-> IF supportsTestReport THEN Str("modern")
                          ELSE IF supportsObject THEN Str("legacy") ELSE Str("basic")]

\* The branch of checkCapabilities that answers from the cache.
cachedCapabilities(cache) ==
    [supportsTestReport |-> cache.supportsTestReport,
     supportsObject |-> cache.supportsObject,
     commandFormat |-> cache.commandFormat]

\* args of getSummary, by the capabilities it destructured
summaryArgs(capabilities) ==
    IF Truthy(capabilities.supportsTestReport) THEN "get test-results tests"
    ELSE IF Truthy(capabilities.supportsObject) THEN "get object --legacy"
    ELSE "get"

ToolHelps ==
    { [mainHelp |-> Str("get export"), getHelp |-> Str("test-results object")],
      [mainHelp |-> Str("get export"), getHelp |-> Str("object")],
      [mainHelp |-> Str("get object"), getHelp |-> ExecaError],
      [mainHelp |-> Str("get"), getHelp |-> Str("")],
      [mainHelp |-> ExecaError, getHelp |-> ExecaError] }

ToolAnswers ==
    { Obj(fs) : fs \in
        { NoFields,
          "get test-results tests" :> Obj("testNodes" :> Arr(<<>>)),
          ("get test-results tests" :> Obj("testNodes" :> Arr(<<>>)))
             @@ ("get object --legacy" :> Obj("actions" :> Values(<<>>))),
          ("get object --legacy" :> Obj("actions" :> Values(<<>>)))
             @@ ("get" :> Obj("actions" :> Values(<<>>))) } }

InitXcjson ==
    /\ impl = "xcjson"
    /\ parsers = <<>>
    /\ registered = <<>>
    /\ call = NoCapabilities
    /\ input \in {[help |-> h, tool |-> t] : h \in ToolHelps, t \in ToolAnswers}
    /\ output = NoOutput
    /\ resultCache = <<>>
    /\ cacheEnabled = TRUE
    /\ pending = <<>>
    /\ completed = [cleared |-> FALSE]

SummaryReturned(p, value, threw) ==
    [op |-> "return", afterClear |-> p.afterClear, helpCommands |-> p.helpCommands,
     command |-> p.command, capabilities |-> p.capabilities, value |-> value,
     threw |-> threw]

\* getSummary(bundlePath) up to its first await of a command: the cached
\* result, or checkCapabilities, which answers from `cache` at once (and
\* getSummary issues its command) or issues `xcresulttool --help`.
XcjsonGetSummary(bundlePath) ==
    LET key == "summary:" \o bundlePath
        p   == [bundlePath |-> bundlePath, afterClear |-> completed.cleared,
                helpCommands |-> 0, command |-> "", capabilities |-> NoCapabilities,
                stage |-> "returns"]
    IN /\ IF cacheEnabled /\ Map_has(resultCache, key)
          THEN /\ output' = SummaryReturned(p, Map_get(resultCache, key), "")
               /\ UNCHANGED pending
          ELSE /\ Len(pending) < MaxPending
               /\ UNCHANGED output
               /\ pending' = Append(pending,
                     IF call.commandFormat # Undefined
                     THEN [p EXCEPT !.stage = "execa",
                                    !.capabilities = cachedCapabilities(call),
                                    !.command = summaryArgs(cachedCapabilities(call))]
                     ELSE [p EXCEPT !.stage = "mainHelp", !.helpCommands = 1])
       /\ completed' = [cleared |-> FALSE]
       /\ UNCHANGED <<impl, parsers, registered, call, input, resultCache, cacheEnabled>>

\* `xcresulttool --help` settles: checkCapabilities issues `get --help`, or
\* throws XCRESULTTOOL_NOT_FOUND, which getSummary rethrows.
MainHelpSettles(i) ==
    /\ i \in 1..Len(pending)
    /\ pending[i].stage = "mainHelp"
    /\ IF input.help.mainHelp = ExecaError
       THEN /\ output' = SummaryReturned(pending[i], Undefined, "XCRESULTTOOL_NOT_FOUND")
            /\ pending' = Without(pending, i)
       ELSE /\ pending' = [pending EXCEPT ![i].stage = "getHelp", ![i].helpCommands = 2]
            /\ UNCHANGED output
    /\ UNCHANGED <<impl, parsers, registered, call, input, resultCache, cacheEnabled,
                   completed>>

\* `xcresulttool get --help` settles: checkCapabilities fills `cache` and
\* returns, and getSummary issues its command.
GetHelpSettles(i) ==
    /\ i \in 1..Len(pending)
    /\ pending[i].stage = "getHelp"
    /\ LET capabilities == capabilitiesOf(input.help.mainHelp, input.help.getHelp)
       IN /\ call' = capabilities
          /\ pending' = [pending EXCEPT ![i].stage = "execa",
                                        ![i].capabilities = capabilities,
                                        ![i].command = summaryArgs(capabilities)]
    /\ UNCHANGED <<impl, parsers, registered, input, output, resultCache, cacheEnabled,
                   completed>>

\* getSummary's command settles: the result is stored and returned, or the
\* failure is rethrown as an XcjsonError.
SummarySettles(i) ==
    /\ i \in 1..Len(pending)
    /\ pending[i].stage = "execa"
    /\ LET p == pending[i]
           result == execa(input.tool, p.command)
       IN IF result = ExecaError
          THEN /\ output' = SummaryReturned(p, Undefined, "SUMMARY_FETCH_ERROR")
               /\ UNCHANGED resultCache
          ELSE /\ output' = SummaryReturned(p, result, "")
               /\ resultCache' = stored(resultCache, cacheEnabled,
                                        "summary:" \o p.bundlePath, result)
    /\ pending' = Without(pending, i)
    /\ UNCHANGED <<impl, parsers, registered, call, input, cacheEnabled, completed>>

\* clearCache(): resultCache.clear(); delete cache.supportsTestReport
XcjsonClearCache ==
    /\ resultCache' = <<>>
    /\ call' = [call EXCEPT !.supportsTestReport = Undefined]
    /\ completed' = [cleared |-> TRUE]
    /\ UNCHANGED <<impl, parsers, registered, input, output, cacheEnabled, pending>>

NextXcjson ==
    \/ \E bundlePath \in {BundlePath, OtherBundle} : XcjsonGetSummary(bundlePath)
    \/ \E i \in 1..MaxPending : MainHelpSettles(i)
    \/ \E i \in 1..MaxPending : GetHelpSettles(i)
    \/ \E i \in 1..MaxPending : SummarySettles(i)
    \/ XcjsonClearCache

SpecXcjson == InitXcjson /\ [][NextXcjson]_vars

\* ============================================================ SpecSource
\* XCResultToolDataSource.getData as the promise it is: the version command,
\* then the commands of executeXCResultTool one after the other. input is the
\* environment (whether `xcrun xcresulttool version` runs, the version it
\* prints, the commands that fail on the bundle at BundlePath; every command
\* reads the bundle at OtherBundle), cacheEnabled is options.cache,
\* resultCache the LRUCache of the data source.
SourceEnvironments ==
    { [xcrun |-> x, version |-> v, failing |-> f] :
        x \in BOOLEAN, v \in {0, 22000, 23000}, f \in SUBSET Commands }

SourcePaths == {BundlePath, OtherBundle, "/t/results.txt"}

\* The commands that fail on the bundle at the path.
failingOn(bundlePath) == IF bundlePath = BundlePath THEN input.failing ELSE {}

\* (mutant) the object format is never tried
attemptAfterSkippingObject(capabilities, stage) ==
    IF stage = "version" /\ capabilities.supportsTestResults THEN "test-results summary"
    ELSE "object --legacy"

\* The command executeXCResultTool issues first (stage "version") and after
\* the failure of the command of a stage.
attemptAfter(capabilities, stage) ==
    IF stage = "version" /\ capabilities.supportsTestResults THEN "test-results summary"
    ELSE IF stage \in {"version", "test-results summary"} /\ capabilities.supportsGetObject
    THEN "object"
    ELSE "object --legacy"

InitSource ==
    /\ impl = "XCResultToolDataSource"
    /\ parsers = <<>>
    /\ registered = <<>>
    /\ call = IdleCall
    /\ input \in SourceEnvironments
    /\ output = NoOutput
    /\ resultCache = <<>>
    /\ cacheEnabled \in BOOLEAN
    /\ pending = <<>>
    /\ completed = <<>>

DataReturned(p, value, threw) ==
    [op |-> "return", bundlePath |-> p.bundlePath, attempts |-> p.attempts,
     value |-> value, threw |-> threw, cacheBefore |-> resultCache]

\* getData(bundlePath) up to its first await: it throws for a path that does
\* not end in .xcresult, returns the cached data, or issues the version command.
SourceGetData(bundlePath) ==
    LET p == [bundlePath |-> bundlePath, stage |-> "version", attempts |-> <<>>,
              capabilities |-> detectCapabilities(0)]
    IN /\ IF ~EndsWith(bundlePath, ".xcresult")
          THEN /\ output' = DataReturned(p, Undefined, "INVALID_BUNDLE")
               /\ UNCHANGED <<resultCache, pending>>
          ELSE IF cacheEnabled /\ Map_has(resultCache, bundlePath)
          THEN /\ output' = DataReturned(p, Map_get(resultCache, bundlePath), "")
               /\ resultCache' = LRUCache_get(resultCache, bundlePath)
               /\ UNCHANGED pending
          ELSE /\ Len(pending) < MaxPending
               /\ pending' = Append(pending, p)
               /\ UNCHANGED <<output, resultCache>>
       /\ UNCHANGED <<impl, parsers, registered, call, input, cacheEnabled, completed>>

\* detectCapabilities settles: executeXCResultTool issues its first command,
\* or getData rejects with XCRESULTTOOL_NOT_FOUND.
VersionSettles(i) ==
    /\ i \in 1..Len(pending)
    /\ pending[i].stage = "version"
    /\ IF input.xcrun
       THEN LET capabilities == detectCapabilities(input.version)
                command == attemptAfter(capabilities, "version")
            IN /\ pending' = [pending EXCEPT ![i].capabilities = capabilities,
                                             ![i].stage = command,
                                             ![i].attempts = <<command>>]
               /\ UNCHANGED output
       ELSE /\ output' = DataReturned(pending[i], Undefined, xcresulttoolNotFound.code)
            /\ pending' = Without(pending, i)
    /\ UNCHANGED <<impl, parsers, registered, call, input, resultCache, cacheEnabled,
                   completed>>

\* A command of executeXCResultTool settles: its output is cached and
\* returned; its failure is caught and the next command issued, or, for the
\* last command, rethrown by getData as XCRESULTTOOL_FAILED.
AttemptSettles(i) ==
    /\ i \in 1..Len(pending)
    /\ pending[i].stage \in Commands
    /\ LET p == pending[i]
           data == Obj("from" :> Str(p.stage))
           command == attemptAfter(p.capabilities, p.stage)
       IN IF p.stage \notin failingOn(p.bundlePath)
          THEN /\ output' = DataReturned(p, data, "")
               /\ resultCache' = IF cacheEnabled
                                 THEN LRUCache_set(resultCache, p.bundlePath, data)
                                 ELSE resultCache
               /\ pending' = Without(pending, i)
          ELSE IF p.stage = "object --legacy"
          THEN /\ output' = DataReturned(p, Undefined, xcresulttoolFailed(CommandFailed).code)
               /\ pending' = Without(pending, i)
               /\ UNCHANGED resultCache
          ELSE /\ pending' = [pending EXCEPT ![i].stage = command,
                                             ![i].attempts = Append(@, command)]
               /\ UNCHANGED <<output, resultCache>>
    /\ UNCHANGED <<impl, parsers, registered, call, input, cacheEnabled, completed>>

\* clearCache()
SourceClearCache ==
    /\ resultCache' = <<>>
    /\ output' = [op |-> "clearCache"]
    /\ UNCHANGED <<impl, parsers, registered, call, input, cacheEnabled, pending, completed>>

NextSource ==
    \/ \E bundlePath \in SourcePaths : SourceGetData(bundlePath)
    \/ \E i \in 1..MaxPending : VersionSettles(i)
    \/ \E i \in 1..MaxPending : AttemptSettles(i)
    \/ SourceClearCache

SpecSource == InitSource /\ [][NextSource]_vars

\* ================================================================ claims
Count(s, x) == Cardinality({i \in 1..Len(s) : s[i] = x})
Occurs(frags, x) == \E i \in 1..Len(frags) : frags[i] = x

\* A parser that accepts the data of the current call and parses it.
Yields(p) == call.beh[p] = "acceptOk"
NoParserYields == \A i \in 1..Len(parsers) : ~Yields(parsers[i])

\* C1: after any sequence of register / registerParser calls, getParsers()
\* holds exactly the registered parsers, ordered by non-increasing priority.
C1_SortedByPriority ==
    /\ \A i, j \in 1..Len(getParsers) :
          i < j => priority(getParsers[i]) >= priority(getParsers[j])
    /\ \A p \in ParserPool : Count(getParsers, p) = Count(registered, p)

\* Registered in the order 80, 100, 90 and returned as 100, 90, 80.
C1_Witness ==
    /\ registered = <<"LegacyFormatParser", "Xcode16FormatParser", "Xcode15FormatParser">>
    /\ getParsers = <<"Xcode16FormatParser", "Xcode15FormatParser", "LegacyFormatParser">>

\* C2: a parser that accepts and then throws does not end the call; the call
\* returns the Report of the first parser in priority order that accepts and
\* parses, and the no-parser error is raised only when there is none.  (A
\* throwing canParse is the subject of C29 and is not constrained here for
\* XCResultParser.)
C2_FallbackToNext ==
    call.phase = "done" =>
       /\ call.result.kind = "report" =>
             \E i \in 1..Len(parsers) :
                /\ parsers[i] = call.result.by
                /\ Yields(parsers[i])
                /\ \A j \in 1..(i - 1) : ~Yields(parsers[j])
       /\ (impl = "ParserRegistry" /\ call.result.kind = "error") => NoParserYields
       /\ (call.result.kind = "error" /\ call.result.error.code = "UNSUPPORTED_FORMAT")
             => NoParserYields
       /\ (call.result.kind = "error" /\ call.log # <<>>
            /\ call.log[Len(call.log)][1] = "parse") => call.idx = Len(parsers) + 1

\* The registry returned the second parser's Report after the first threw.
C2_Witness ==
    /\ impl = "ParserRegistry"
    /\ call.phase = "done"
    /\ call.result.kind = "report"
    /\ Len(parsers) >= 2
    /\ call.beh[parsers[1]] = "acceptThrows"
    /\ call.result.by = parsers[2]

\* C3: within one parse call canParse is invoked on the parsers in priority
\* order, parse only right after the same parser's canParse returned true,
\* and nothing is invoked after a parse that returned successfully.
CanParseCalls == SelectSeq(call.log, LAMBDA e : e[1] = "canParse")

C3_InvocationOrder ==
    /\ \A i \in 1..Len(CanParseCalls) : CanParseCalls[i][2] = parsers[i]
    /\ \A i, j \in 1..Len(CanParseCalls) :
          i < j => priority(CanParseCalls[i][2]) >= priority(CanParseCalls[j][2])
    /\ \A k \in 1..Len(call.log) :
          call.log[k][1] = "parse" =>
             /\ k > 1
             /\ call.log[k - 1] = <<"canParse", call.log[k][2]>>
             /\ call.beh[call.log[k][2]] \in {"acceptOk", "acceptThrows"}
             /\ k < Len(call.log) => call.beh[call.log[k][2]] = "acceptThrows"
    /\ (call.phase = "done" /\ call.result.kind = "report") =>
          call.log[Len(call.log)] = <<"parse", call.result.by>>

\* Three parsers: the first rejected, the second parsed, the third untouched.
C3_Witness ==
    /\ call.phase = "done"
    /\ Len(parsers) = 3
    /\ call.beh[parsers[1]] = "reject"
    /\ call.beh[parsers[2]] = "acceptOk"
    /\ call.beh[parsers[3]] = "acceptOk"
    /\ parsers[3] # parsers[2]
    /\ call.log = <<<<"canParse", parsers[1]>>, <<"canParse", parsers[2]>>,
                    <<"parse", parsers[2]>>>>

\* C4 (as claimed): whenever no registered parser yields a Report, the error
\* raised lists every registered parser's name and, for each parser that
\* accepted and threw, its name together with its error message.
ListsParserFailure(frags, p) ==
    \E k \in 1..(Len(frags) - 3) :
        /\ frags[k] = name(p)
        /\ frags[k + 1] = " parser failed: "
        /\ SubSeq(frags, k + 2, k + 1 + Len(ParserError(p).message)) = ParserError(p).message

AggregateMessage(frags) ==
    /\ \A i \in 1..Len(parsers) : Occurs(frags, name(parsers[i]))
    /\ \A i \in 1..Len(parsers) :
          call.beh[parsers[i]] = "acceptThrows" => ListsParserFailure(frags, parsers[i])

AllParsersTried ==
    /\ call.phase = "done"
    /\ call.result.kind = "error"
    /\ call.dataError = <<>>
    /\ call.idx = Len(parsers) + 1

C4_Original ==
    (AllParsersTried /\ NoParserYields) => AggregateMessage(call.result.error.message)

\* C4 (amended): ParserRegistry.parse raises that aggregate error;
\* XCResultParser.parse raises the fixed UNSUPPORTED_FORMAT error instead.
C4_AggregateError ==
    (AllParsersTried /\ NoParserYields) =>
       /\ impl = "ParserRegistry" => AggregateMessage(call.result.error.message)
       /\ impl = "XCResultParser" => call.result.error = unsupportedFormat

\* The registry ran out of parsers after one of two accepted and threw.
C4_Witness ==
    /\ impl = "ParserRegistry"
    /\ AllParsersTried
    /\ Len(parsers) = 2
    /\ call.beh[parsers[1]] = "acceptThrows"
    /\ call.beh[parsers[2]] = "reject"

\* C6 (as claimed): in every reachable registry state no two registered
\* parsers share a name and no two share a priority.
UniqueNamesAndPriorities ==
    \A i, j \in 1..Len(parsers) :
        i # j => /\ name(parsers[i]) # name(parsers[j])
                 /\ priority(parsers[i]) # priority(parsers[j])

C6_Original == UniqueNamesAndPriorities

\* C6 (amended): register enforces nothing; uniqueness holds of a registry
\* that holds parsers of createFormatParsers(), each registered at most once.
FromFactoryOnce ==
    \A p \in ParserPool :
        /\ Count(registered, p) <= 1
        /\ Count(registered, p) = 1 => Count(createFormatParsers, p) = 1

C6_FactoryParsersUnique == FromFactoryOnce => UniqueNamesAndPriorities

C6_Witness ==
    /\ FromFactoryOnce
    /\ Len(parsers) = Len(createFormatParsers)
    /\ registered = createFormatParsers

\* ------------------------------------------------------------------ C5
\* C5 as stated: whatever the raw input, every format parser's canParse
\* returns a value of type boolean and does not throw.
C5_Original ==
    output.op = "canParse" => output.value.t = "boolean"

\* ------------------------------------------------------------------ C7
HasReport == output.op \in {"parse", "convert"}

AllOf(tests, status) == \A k \in 1..Len(tests) : tests[k].status = status

\* C7: in every Report a parser or the conversion produced, totalSuites is the
\* length of suites, every entry of a failed list has status Failure and
\* every entry of a passed list has status Success.
C7_ReportWellFormed ==
    HasReport =>
        /\ output.report.totalSuites = Len(output.report.suites)
        /\ \A i \in 1..Len(output.report.suites) :
              /\ AllOf(output.report.suites[i].failed, "Failure")
              /\ AllOf(output.report.suites[i].passed, "Success")

\* A parser collected a passing, a failing and a skipped test for one report.
C7_Witness ==
    /\ output.op = "parse"
    /\ output.parser = "LegacyFormatParser"
    /\ \E k \in 1..Len(output.tests) : output.tests[k].status = "Skipped"
    /\ \E i \in 1..Len(output.report.suites) :
          /\ output.report.suites[i].failed # <<>>
          /\ output.report.suites[i].passed # <<>>

\* ------------------------------------------------------------------ C8
\* C8 as stated: whenever the suites of a parser's Report hold at least one
\* test, totalTests is the sum over the suites of failed.length + passed.length.
C8_Original ==
    (output.op = "parse" /\ CountTests(output.report.suites) > 0)
        => output.report.totalTests = CountTests(output.report.suites)

\* ------------------------------------------------------------------ C9
HasFailureMessage(test) ==
    /\ "failureMessage" \in DOMAIN test
    /\ test.failureMessage # Undefined

\* C9: no TestResult a parser built (listed in the Report or not) and no
\* TestResult of a converted Report has status Success or Skipped together
\* with a failureMessage.
C9_NoMessageUnlessFailure ==
    HasReport =>
        \A k \in 1..Len(output.tests) :
            output.tests[k].status \in {"Success", "Skipped"}
                => ~HasFailureMessage(output.tests[k])

\* A parser built a skipped, a passing and a failing test, the last with a message.
C9_Witness ==
    /\ output.op = "parse"
    /\ \E k \in 1..Len(output.tests) : output.tests[k].status = "Skipped"
    /\ \E k \in 1..Len(output.tests) : output.tests[k].status = "Success"
    /\ \E k \in 1..Len(output.tests) :
          output.tests[k].status = "Failure" /\ HasFailureMessage(output.tests[k])

\* ----------------------------------------------------------------- C10
LegacyWrappedArrayParsers == {"LegacyFormatParser", "LegacyParser"}

\* C10 as stated: every TestResult with status Failure in a Report of the
\* legacy wrapped-array parser carries the failureMessage "Test failed".
C10_Original ==
    (output.op = "parse" /\ output.parser \in LegacyWrappedArrayParsers) =>
        \A i \in 1..Len(output.report.suites) :
            \A k \in 1..Len(output.report.suites[i].failed) :
                /\ HasFailureMessage(output.report.suites[i].failed[k])
                /\ output.report.suites[i].failed[k].failureMessage = Str("Test failed")

\* ----------------------------------------------------------------- C11
\* The leaves of a wrapped-array test tree, depth first: a node is a leaf
\* unless subtests or children is a non-empty collection.
RECURSIVE LeafNodes(_)
LeafNodes(nodes) ==
    IF nodes = <<>> THEN <<>>
    ELSE LET node == Head(nodes)
             subs == OptPath(node, <<"subtests", "_values">>)
             kids == OptPath(node, <<"children", "_values">>)
         IN (IF IsContainer(node)
             THEN (IF Truthy(subs) THEN LeafNodes(subs.items) ELSE <<>>)
                  \o (IF Truthy(kids) THEN LeafNodes(kids.items) ELSE <<>>)
             ELSE <<node>>)
            \o LeafNodes(Tail(nodes))

LeavesOfSummary(summary) ==
    LET tests == OptPath(summary, <<"tests", "_values">>)
    IN IF Truthy(tests) THEN LeafNodes(tests.items) ELSE <<>>

\* For the report in output: per suite, the status tokens of the source
\* leaves the suite was built from, in depth-first order.
SourceTokens ==
    LET wrapped(summaries) ==
            [i \in 1..Len(summaries) |->
                [k \in 1..Len(LeavesOfSummary(summaries[i])) |->
                    OptPath(LeavesOfSummary(summaries[i])[k], <<"testStatus", "_value">>)]]
        tree(testNodes) ==
            [i \in 1..Len(AllTestSuiteNodes(testNodes)) |->
                [k \in 1..Len(CasesOf(AllTestSuiteNodes(testNodes)[i])) |->
                    Dot(CasesOf(AllTestSuiteNodes(testNodes)[i])[k], "result")]]
    IN CASE output.parser \in {"LegacyFormatParser", "LegacyParser"} ->
                wrapped(LegacyParser_testSummaries(input.data))
         [] output.parser = "Xcode15LegacyParser" ->
                wrapped(Xcode15LegacyParser_testableSummaries(input.data, input.tool))
         [] output.parser = "Xcode16Parser" ->
                tree(Dot(input.data, "testNodes").items)
         [] output.parser = "Xcode16FormatParser" ->
                tree(Or(Dot(Xcode16FormatParser_getTestDetails(input.tool), "testNodes"),
                        Arr(<<>>)).items)
         [] OTHER -> <<>>

PassTokens == {Str("Success"), Str("Passed")}
SkipTokens == {Str("Skipped")}
FailTokens == {Str("Failure"), Str("Failed")}

\* Tokens of the other format are unrecognised too, but the inputs only use
\* each format's own tokens, "Expected Failure" and no token at all.
Unrecognised(token) == token \notin PassTokens \cup SkipTokens \cup FailTokens

EmitsTests ==
    output.op = "parse" /\ output.parser \in FormatParsers \ {"Xcode15FormatParser"}

\* C11: every source leaf whose status token is missing or unrecognised is
\* emitted with status Failure in its suite's failed list: together with the
\* leaves whose token is the fail token they are exactly the failed entries.
C11_UnknownIsFailure ==
    EmitsTests =>
        /\ Len(output.report.suites) = Len(SourceTokens)
        /\ \A i \in 1..Len(SourceTokens) :
              /\ Len(output.report.suites[i].failed)
                    = Len(SelectSeq(SourceTokens[i],
                                    LAMBDA t : t \in FailTokens \/ Unrecognised(t)))
              /\ AllOf(output.report.suites[i].failed, "Failure")

\* A suite built from a leaf without token and a leaf with an unrecognised one.
C11_Witness ==
    /\ EmitsTests
    /\ output.parser = "Xcode16Parser"
    /\ \E i \in 1..Len(SourceTokens) :
          /\ \E k \in 1..Len(SourceTokens[i]) : SourceTokens[i][k] = Undefined
          /\ \E k \in 1..Len(SourceTokens[i]) : SourceTokens[i][k] = Str("Expected Failure")
          /\ Len(output.report.suites[i].failed) = 2

\* ----------------------------------------------------------------- C12
\* The parsers that fetch a failing leaf's details by its summary reference.
DetailParsers == {"parseLegacyFormat", "Xcode15LegacyParser"}

\* The source leaves behind the report in output, all suites, depth first.
SourceLeaves ==
    LET summaries == testableSummariesOf(input.data, input.tool)
    IN Flatten([i \in 1..Len(summaries) |-> LeavesOfSummary(summaries[i])])

SummaryRefOf(leaf) == OptPath(leaf, <<"summaryRef", "id", "_value">>)

\* A failing leaf with a summary reference ...
FailingWithRef(leaf) ==
    /\ OptPath(leaf, <<"testStatus", "_value">>) = Str("Failure")
    /\ Truthy(SummaryRefOf(leaf))

\* ... whose detail payload the tool delivers.
DetailsFetched(leaf) ==
    /\ FailingWithRef(leaf)
    /\ execa(input.tool, SummaryRefOf(leaf).s) # ExecaError
    /\ Truthy(execa(input.tool, SummaryRefOf(leaf).s))

\* The resolution order as stated: (1) the first failureSummaries entry's
\* message, (2) the message or title of the first of summaries followed by
\* testFailureSummaries, (3) the title of the first activitySummaries entry
\* containing "failed", (4) "Test failed".
ResolvedMessage(details) ==
    LET failureSummaries == Or(OptPath(details, <<"failureSummaries", "_values">>), Arr(<<>>))
        allSummaries ==
            Or(OptPath(details, <<"summaries", "_values">>), Arr(<<>>)).items
            \o Or(OptPath(details, <<"testFailureSummaries", "_values">>), Arr(<<>>)).items
        activities == Or(OptPath(details, <<"activitySummaries", "_values">>), Arr(<<>>))
        m1 == OptPath(OptFirst(failureSummaries), <<"message", "_value">>)
        m2 == IF allSummaries = <<>> THEN Undefined
              ELSE Or(OptPath(allSummaries[1], <<"message", "_value">>),
                      OptPath(allSummaries[1], <<"title", "_value">>))
        m3 == firstFailedActivity(activities.items)
    IN Or(Or(Or(m1, m2), m3), Str("Test failed"))

ExpectedMessage(leaf) == ResolvedMessage(execa(input.tool, SummaryRefOf(leaf).s))

Carrying(tests, message) ==
    SelectSeq(tests, LAMBDA r : HasFailureMessage(r) /\ r.failureMessage = message)

\* C12 as stated: every failing leaf with a summary reference whose details
\* were fetched is emitted with the message the stated order resolves to.
C12_Original ==
    (output.op = "parse" /\ output.parser \in DetailParsers) =>
        LET fetched == SelectSeq(SourceLeaves, DetailsFetched)
        IN \A j \in 1..Len(fetched) :
              Len(Carrying(output.tests, ExpectedMessage(fetched[j])))
                 >= Len(SelectSeq(fetched,
                          LAMBDA l : ExpectedMessage(l) = ExpectedMessage(fetched[j])))

\* ----------------------------------------------------------------- C13
\* A failing leaf with a summary reference whose detail fetch fails: the tool
\* fails, or what it prints parses to null.
FetchFailed(leaf) == FailingWithRef(leaf) /\ ~DetailsFetched(leaf)

AllFailed ==
    Flatten([i \in 1..Len(output.report.suites) |-> output.report.suites[i].failed])

AsyncParsers == {"parseLegacyFormat", "Xcode15LegacyParser", "LegacyParser"}

\* The TestResult the parser in output builds for one source leaf.
ResultOf(leaf) ==
    CASE output.parser = "LegacyParser" -> LegacyParser_extractTestResult(leaf)
      [] output.parser = "Xcode15LegacyParser" ->
             Xcode15LegacyParser_extractTestResult(leaf, input.tool)
      [] OTHER -> extractTestResult(leaf, input.tool)

\* Per suite of the report in output: the results of the source leaves in
\* depth-first order of the source tree.
DepthFirstResults ==
    LET summaries == IF output.parser = "LegacyParser"
                     THEN LegacyParser_testSummaries(input.data)
                     ELSE testableSummariesOf(input.data, input.tool)
    IN [i \in 1..Len(summaries) |->
           Flatten([k \in 1..Len(LeavesOfSummary(summaries[i])) |->
                       ResultOf(LeavesOfSummary(summaries[i])[k])])]

\* C14 as stated: whatever the completion order of the concurrent fetches and
\* traversal steps, every suite's failed and passed lists are in the
\* depth-first order of the source tree.
C14_Original ==
    (output.op = "parse" /\ output.parser \in AsyncParsers) =>
        \A i \in 1..Len(output.report.suites) :
            /\ output.report.suites[i].failed
                  = SelectSeq(DepthFirstResults[i], LAMBDA r : r.status = "Failure")
            /\ output.report.suites[i].passed
                  = SelectSeq(DepthFirstResults[i], LAMBDA r : r.status = "Success")

\* ----------------------------------------------------------------- C15
\* XCResultParser.parse has settled after dataSource.getData raised.
TopLevelFetchFailed ==
    /\ impl = "XCResultParser"
    /\ call.phase = "done"
    /\ call.dataError # <<>>

\* C15 as stated: when the data source's top-level fetch fails, parse invokes
\* no format parser and rejects with exactly the error the data source raised.
C15_Original ==
    TopLevelFetchFailed =>
        /\ call.log = <<>>
        /\ call.result = Raise(call.dataError[1])

\* C15 (amended): when the data source's top-level fetch fails, parse invokes
\* no format parser and rejects; with the very error raised when that is an
\* XCResultError, and otherwise with a new XCResultError of code
\* XCRESULTTOOL_FAILED that carries the error raised as its originalError and
\* appends its message to 'xcresulttool execution failed: '.
C15_FetchFailureRejects ==
    TopLevelFetchFailed =>
        LET e == call.dataError[1]
        IN /\ call.log = <<>>
           /\ call.result.kind = "error"
           /\ e.cls = "XCResultError" => call.result.error = e
           /\ e.cls # "XCResultError" =>
                 /\ call.result.error.cls = "XCResultError"
                 /\ call.result.error.code = "XCRESULTTOOL_FAILED"
                 /\ call.result.error.originalError = <<e>>
                 /\ call.result.error.message
                       = <<"xcresulttool execution failed: ">> \o e.message

\* A data source raised a plain Error while parsers were registered.
C15_Witness ==
    /\ TopLevelFetchFailed
    /\ call.dataError[1].cls = "Error"
    /\ Len(parsers) > 0
    /\ call.result.kind = "error"

\* ----------------------------------------------------------------- C16
\* The command line exited after a successful parse.
ExitedAfterParse == output.op = "exit" /\ output.parser # "none"

\* The raw data getData returned shows a failed test: a positive failedTests
\* count in a summary, or a leaf of a testable summary whose status is
\* Failure, missing or unrecognised.  The object-graph shape lists no tests.
RawDataHasFailedTest ==
    CASE output.parser = "Xcode16FormatParser" -> Dot(input.data, "failedTests").n > 0
      [] output.parser = "LegacyFormatParser" ->
            LET summaries == LegacyParser_testSummaries(input.data)
            IN \E i \in 1..Len(summaries) :
                  \E k \in 1..Len(LeavesOfSummary(summaries[i])) :
                     LET t == OptPath(LeavesOfSummary(summaries[i])[k],
                                      <<"testStatus", "_value">>)
                     IN t \in FailTokens \/ Unrecognised(t)
      [] OTHER -> FALSE

\* C16 as stated: after a successful parse the exit code is 10 if the raw
\* data contains a failed test and 0 otherwise, whichever parser handled it.
C16_Original ==
    ExitedAfterParse => output.code = IF RawDataHasFailedTest THEN 10 ELSE 0

\* ----------------------------------------------------------------- C17
\* The command line exited after parseXCResult rejected.
ExitedAfterFailure == output.op = "exit" /\ output.parser = "none"

\* The path names neither a bundle nor a fixture, or nothing exists there.
InvalidOrMissingBundle ==
    \/ ~(EndsWith(input.env.path, ".xcresult") \/ EndsWith(input.env.path, ".json"))
    \/ ~input.env.exists

\* xcresulttool is needed for the path and cannot be run.
ToolCannotRun == EndsWith(input.env.path, ".xcresult") /\ ~input.env.xcrun

\* C17 as stated: a failed parse exits with 2 when the bundle path is invalid
\* or the bundle does not exist, with 1 when xcresulttool cannot be run, and
\* never with 0 or 10.  (Where both hold, either code is accepted.)
C17_Original ==
    ExitedAfterFailure =>
        /\ (InvalidOrMissingBundle /\ ~ToolCannotRun) => output.code = 2
        /\ (ToolCannotRun /\ ~InvalidOrMissingBundle) => output.code = 1
        /\ output.code \notin {0, 10}

\* ----------------------------------------------------------------- C18
\* A call has returned that was made when its request had already completed
\* successfully under caching and no clear or eviction had happened since.
ReturnedAfterCompletion == output.op = "return" /\ output.expected # <<>>

\* C18: with caching enabled, once a fetch has completed successfully for a
\* key, every later call for that key returns that payload without invoking
\* xcresulttool, until the entry is cleared or evicted.
C18_CachedIsServed ==
    ReturnedAfterCompletion =>
        /\ ~output.invoked
        /\ ~output.threw
        /\ output.value = output.expected[1]

\* A data source served the second revision of a payload from its cache
\* while another fetch was in flight.
C18_Witness ==
    /\ ReturnedAfterCompletion
    /\ impl = "XCResultToolDataSource"
    /\ ~output.invoked
    /\ Dot(output.value, "rev") = Num(2)
    /\ pending # <<>>

DefaultParsers == {"Xcode16FormatParser", "Xcode15FormatParser", "LegacyFormatParser"}

\* The default parsers whose canParse returns true for the input.
Accepting == { p \in DefaultParsers : canParse(p, input.data) = Bool(TRUE) }

\* C20 as stated: for every raw input at most one of the three default
\* parsers returns true from canParse.
C20_Original ==
    output.op = "canParse" => Cardinality(Accepting) <= 1

\* The top-level field each default parser looks for.
MarkerOf(p) ==
    CASE p = "Xcode16FormatParser" -> "devicesAndConfigurations"
      [] p = "Xcode15FormatParser" -> "actions"
      [] OTHER                     -> "issues"

\* The default parsers whose field the input carries.
Marked ==
    { p \in DefaultParsers :
        input.data.t = "object" /\ MarkerOf(p) \in DOMAIN input.data.fields }

\* C20 (amended): a default parser returns true from canParse only for an
\* object that carries the parser's own top-level field, so a raw input that
\* carries the field of one format only is accepted by at most one default
\* parser, and only by that format's parser; an input that carries the fields
\* of several formats can be accepted by each of them.
C20_AcceptedByOwnFormat ==
    (/\ output.op = "canParse"
     /\ output.parser \in DefaultParsers
     /\ output.value = Bool(TRUE))
    => /\ output.parser \in Marked
       /\ Cardinality(Marked) = 1 => Accepting = {output.parser}

\* The actions parser accepted an input that carries its field only.
C20_Witness ==
    /\ output.op = "canParse"
    /\ output.parser = "Xcode15FormatParser"
    /\ output.value = Bool(TRUE)
    /\ Marked = {"Xcode15FormatParser"}
    /\ Accepting = {"Xcode15FormatParser"}

\* ----------------------------------------------------------------- C21
\* The parsers of the nested tree of test nodes.
TreeParsers == {"Xcode16Parser", "Xcode16FormatParser"}

\* The testNodes the report in output was built from.
SourceTestNodes ==
    IF output.parser = "Xcode16Parser"
    THEN Dot(input.data, "testNodes").items
    ELSE Or(Dot(Xcode16FormatParser_getTestDetails(input.tool), "testNodes"), Arr(<<>>)).items

\* Every node of the tree under node, in document order, each with whether a
\* Test Suite is among its proper ancestors.
RECURSIVE NodesUnder(_, _)
NodesUnder(node, inSuite) ==
    << [node |-> node, inSuite |-> inSuite] >>
    \o (IF Truthy(Dot(node, "children"))
        THEN Flatten([i \in 1..Len(Dot(node, "children").items) |->
                 NodesUnder(Dot(node, "children").items[i],
                            inSuite \/ Dot(node, "nodeType") = Str("Test Suite"))])
        ELSE <<>>)

OutermostSuites(testNodes) ==
    SelectSeq(Flatten([i \in 1..Len(testNodes) |-> NodesUnder(testNodes[i], FALSE)]),
              LAMBDA e : ~e.inSuite /\ Dot(e.node, "nodeType") = Str("Test Suite"))

DescendantCases(suite) ==
    SelectSeq(NodesUnder(suite, FALSE),
              LAMBDA e : Dot(e.node, "nodeType") = Str("Test Case"))

\* C21: in the nested-tree parsers the suites of the report are, in document
\* order, the Test Suite nodes without a Test Suite ancestor, one SuiteResult
\* each; a suite's failed and passed lists hold its descendant Test Case nodes
\* (all that are not skipped, at any depth, through any node type) and its
\* duration sums all of them; no other node yields a SuiteResult.
C21_OneSuitePerOutermostSuite ==
    (output.op = "parse" /\ output.parser \in TreeParsers) =>
        LET suites == OutermostSuites(SourceTestNodes)
        IN /\ Len(output.report.suites) = Len(suites)
           /\ \A i \in 1..Len(suites) :
                 LET cases == DescendantCases(suites[i].node)
                     made  == output.report.suites[i]
                 IN /\ made.suiteName \in {Dot(suites[i].node, "name"), Str("Unknown Suite")}
                    /\ Len(made.failed) + Len(made.passed)
                          = Len(SelectSeq(cases,
                                    LAMBDA e : Dot(e.node, "result") # Str("Skipped")))
                    /\ made.duration
                          = Sum([k \in 1..Len(cases) |->
                                   Nullish(Dot(cases[k].node, "durationInSeconds"), Num(0)).n])

\* Two suites below two containers, the first with a test case that is not
\* its direct child (below a nested Test Suite or another node type).
C21_Witness ==
    /\ output.op = "parse" /\ output.parser \in TreeParsers
    /\ Len(output.report.suites) = 2
    /\ Len(SourceTestNodes) = 1
    /\ LET first == OutermostSuites(SourceTestNodes)[1]
       IN /\ first.node # SourceTestNodes[1]
          /\ \E k \in 1..Len(DescendantCases(first.node)) :
                \A j \in 1..Len(Dot(first.node, "children").items) :
                    Dot(first.node, "children").items[j] # DescendantCases(first.node)[k].node
          /\ Len(output.report.suites[1].failed) + Len(output.report.suites[1].passed) >= 2

\* ----------------------------------------------------------------- C22
\* The parsers that walk testable summaries with subtests and children.
WrappedParsers == {"LegacyFormatParser", "LegacyParser", "Xcode15LegacyParser",
                   "parseLegacyFormat"}

\* The testable summaries the report in output was built from.
SourceSummaries ==
    CASE output.parser \in {"LegacyFormatParser", "LegacyParser"} ->
            LegacyParser_testSummaries(input.data)
      [] output.parser = "Xcode15LegacyParser" ->
            Xcode15LegacyParser_testableSummaries(input.data, input.tool)
      [] output.parser = "parseLegacyFormat" ->
            testableSummariesOf(input.data, input.tool)

\* The members of a subtests or children collection, none if it is absent.
MembersOf(node, collection) ==
    LET values == OptPath(node, <<collection, "_values">>)
    IN IF values.t = "array" THEN values.items ELSE <<>>

\* A node and every node under its subtests and under its children.
RECURSIVE NodeAndBelow(_)
NodeAndBelow(node) ==
    <<node>>
    \o Flatten([i \in 1..Len(MembersOf(node, "subtests")) |->
                   NodeAndBelow(MembersOf(node, "subtests")[i])])
    \o Flatten([i \in 1..Len(MembersOf(node, "children")) |->
                   NodeAndBelow(MembersOf(node, "children")[i])])

SourceNodes ==
    Flatten([i \in 1..Len(SourceSummaries) |->
        Flatten([k \in 1..Len(MembersOf(SourceSummaries[i], "tests")) |->
                    NodeAndBelow(MembersOf(SourceSummaries[i], "tests")[k])])])

BothEmpty(node) ==
    MembersOf(node, "subtests") = <<>> /\ MembersOf(node, "children") = <<>>

NameOfNode(node) == Or(OptPath(node, <<"identifier", "_value">>), Str("Unknown Test"))

Occurrences(seq, P(_)) == Len(SelectSeq(seq, P))

\* C22: in the traversals of subtests and children the TestResults made are
\* exactly one for each node whose subtests and children are both absent or
\* empty, wherever it sits under subtests or children, and none for a node
\* with a member in either collection.
C22_LeavesYieldResults ==
    (output.op = "parse" /\ output.parser \in WrappedParsers) =>
        LET leaves == SelectSeq(SourceNodes, BothEmpty)
            names == [k \in 1..Len(leaves) |-> NameOfNode(leaves[k])]
            made == [k \in 1..Len(output.tests) |-> output.tests[k].name]
        IN /\ Len(made) = Len(names)
           /\ \A nm \in {names[k] : k \in 1..Len(names)} :
                 Occurrences(made, LAMBDA r : r = nm)
                    = Occurrences(names, LAMBDA n : n = nm)

\* A node with a subtest and a child, next to a node with an empty collection:
\* three results, none of them the container's.
C22_Witness ==
    /\ output.op = "parse" /\ output.parser \in WrappedParsers
    /\ \E i \in 1..Len(SourceNodes) :
          /\ MembersOf(SourceNodes[i], "subtests") # <<>>
          /\ MembersOf(SourceNodes[i], "children") # <<>>
    /\ \E i \in 1..Len(SourceNodes) :
          /\ OptPath(SourceNodes[i], <<"subtests", "_values">>) = Arr(<<>>)
          /\ NameOfNode(SourceNodes[i]) = Str("c1")
    /\ Occurrences(output.tests, LAMBDA r : r.name = Str("c1")) = 1
    /\ Occurrences(output.tests, LAMBDA r : r.name = Str("k1")) = 2

\* ----------------------------------------------------------------- C23
\* C23 (as stated): during one parse at most one per-test detail fetch is in
\* flight at any time.
C23_Original == Len(pending) <= 1

\* ----------------------------------------------------------------- C24
\* The leaves of a summary that have a testStatus value ...
WithStatus(leaves) ==
    SelectSeq(leaves, LAMBDA leaf : Truthy(OptPath(leaf, <<"testStatus", "_value">>)))

\* ... and those that have none.
WithoutStatus(leaves) ==
    SelectSeq(leaves, LAMBDA leaf : ~Truthy(OptPath(leaf, <<"testStatus", "_value">>)))

\* C24: in the older parser module a leaf without a testStatus value is in
\* neither list of its suite and is not counted: every suite lists as failed
\* and passed exactly its leaves whose testStatus is Failure and Success, and
\* totalTests is the number of entries listed.
C24_NoStatusIsDropped ==
    (output.op = "parse" /\ output.parser = "parseLegacyFormat") =>
        LET summaries == testableSummariesOf(input.data, input.tool)
            listed(i) == output.report.suites[i].failed \o output.report.suites[i].passed
        IN /\ Len(output.report.suites) = Len(summaries)
           /\ \A i \in 1..Len(summaries) :
                 /\ Len(output.report.suites[i].failed)
                       = Len(SelectSeq(WithStatus(LeavesOfSummary(summaries[i])),
                             LAMBDA leaf : DotPath(leaf, <<"testStatus", "_value">>) = Str("Failure")))
                 /\ Len(output.report.suites[i].passed)
                       = Len(SelectSeq(WithStatus(LeavesOfSummary(summaries[i])),
                             LAMBDA leaf : DotPath(leaf, <<"testStatus", "_value">>) = Str("Success")))
           /\ output.report.totalTests
                 = Sum([i \in 1..Len(summaries) |-> Len(listed(i))])

\* A suite of a leaf without testStatus and a passing leaf: one test counted.
C24_Witness ==
    /\ output.op = "parse" /\ output.parser = "parseLegacyFormat"
    /\ Len(output.report.suites) = 1
    /\ LET leaves == LeavesOfSummary(testableSummariesOf(input.data, input.tool)[1])
       IN /\ Len(leaves) = 2
          /\ Len(WithoutStatus(leaves)) = 1
          /\ Len(output.tests) = 2
    /\ output.report.suites[1].failed = <<>>
    /\ Len(output.report.suites[1].passed) = 1
    /\ output.report.totalTests = 1

\* ----------------------------------------------------------------- C25
\* A set of a key the cache did not hold, into a cache that was full.
SetOverflowed ==
    /\ output.op = "set"
    /\ output.key \notin Map_keys(output.before)
    /\ Len(output.before) + 1 > call.maxSize

\* The keys the last set removed.
RemovedBySet == (Map_keys(output.before) \cup {output.key}) \ Map_keys(resultCache)

\* C25: with a capacity of at least 1, a set of a new key that makes the size
\* exceed the capacity removes exactly one entry, and it is the entry whose
\* last set or get lies furthest back among the entries held before.
C25_EvictsLeastRecentlyUsed ==
    (SetOverflowed /\ call.maxSize >= 1) =>
        /\ Cardinality(RemovedBySet) = 1
        /\ \A e \in RemovedBySet :
              /\ e \in Map_keys(output.before)
              /\ \A k \in Map_keys(output.before) \ {e} :
                    completed.lastUse[e] < completed.lastUse[k]

\* set a, set b, get a, set c with capacity 2: b goes although a is older.
C25_Witness ==
    /\ SetOverflowed /\ call.maxSize = 2
    /\ output.key = "c"
    /\ RemovedBySet = {"b"}
    /\ output.before[1][1] = "b"
    /\ output.before[2] = <<"a", Num(1)>>

\* ----------------------------------------------------------------- C26
\* C26: after every set, get, has or clear the cache holds at most as many
\* entries as its capacity, and with capacity 0 it is empty after every set.
C26_SizeWithinCapacity ==
    /\ Len(resultCache) <= call.maxSize
    /\ (call.maxSize = 0 /\ output.op = "set") => resultCache = <<>>

\* A set on a cache of capacity 0, which had to remove its own entry.
C26_Witness ==
    /\ call.maxSize = 0
    /\ output.op = "set"
    /\ RemovedBySet = {output.key}
    /\ completed.clock >= 2

\* ----------------------------------------------------------------- C27
\* What a detection run now would find.
FreshDetection == capabilitiesOf(input.help.mainHelp, input.help.getHelp)

\* A getSummary call has finished that was the first call after clearCache().
ReturnedAfterClear ==
    /\ output.op = "return"
    /\ output.afterClear
    /\ input.help.mainHelp # ExecaError

\* C27 (as stated): the first getSummary call after clearCache() runs the
\* capability check's commands and its data command again and acts on the
\* capabilities a fresh detection gives.
C27_Original ==
    ReturnedAfterClear =>
        /\ output.helpCommands > 0
        /\ output.command # ""
        /\ output.capabilities = FreshDetection

\* ----------------------------------------------------------------- C28
\* The formats in the order of the fallback chain, and whether the
\* capability detected for the installed version allows each.
FormatOrder == <<"test-results summary", "object", "object --legacy">>

Allowed(command) ==
    CASE command = "test-results summary" -> detectCapabilities(input.version).supportsTestResults
      [] command = "object"               -> detectCapabilities(input.version).supportsGetObject
      [] OTHER                            -> TRUE

\* The allowed formats up to and including the first that succeeds.
RECURSIVE UpToFirstSuccess(_)
UpToFirstSuccess(commands) ==
    IF commands = <<>> THEN <<>>
    ELSE IF ~Allowed(Head(commands)) THEN UpToFirstSuccess(Tail(commands))
    ELSE IF Head(commands) \notin failingOn(output.bundlePath) THEN <<Head(commands)>>
    ELSE <<Head(commands)>> \o UpToFirstSuccess(Tail(commands))

\* A getData call has settled that got as far as executeXCResultTool.
SettledAfterDetection ==
    output.op = "return" /\ output.attempts # <<>>

\* C28: getData tries test-results summary, get object and get object
\* --legacy in this order, each only if its capability was detected and every
\* earlier attempt failed; it rejects only when the legacy attempt fails, with
\* XCRESULTTOOL_FAILED, and a rejected getData leaves the cache as it was.
C28_FallbackChain ==
    /\ SettledAfterDetection =>
          /\ output.attempts = UpToFirstSuccess(FormatOrder)
          /\ output.threw # "" <=>
                /\ output.attempts[Len(output.attempts)] = "object --legacy"
                /\ "object --legacy" \in failingOn(output.bundlePath)
          /\ output.threw \in {"", "XCRESULTTOOL_FAILED"}
          /\ output.threw = "" =>
                output.value = Obj("from" :> Str(output.attempts[Len(output.attempts)]))
    /\ (output.op = "return" /\ output.threw # "") => resultCache = output.cacheBefore

\* All three formats were tried and the last one failed too, while the cache
\* held the data of another bundle.
C28_Witness ==
    /\ SettledAfterDetection
    /\ output.attempts = FormatOrder
    /\ output.threw = "XCRESULTTOOL_FAILED"
    /\ output.cacheBefore # <<>>
    /\ resultCache = output.cacheBefore

\* ----------------------------------------------------------------- C29
\* canParse of the parser at position i was called and threw.
CanParseThrew(i) ==
    /\ call.beh[parsers[i]] = "canParseThrows"
    /\ Occurs(call.log, <<"canParse", parsers[i]>>)

\* The parser at position k is the first that accepts the data and parses it.
FirstToYield(k) ==
    /\ Yields(parsers[k])
    /\ \A h \in 1..(k - 1) : ~Yields(parsers[h])

\* C29 (as stated): when canParse of a registered parser throws, the parsers
\* of lower priority are still tried, and the first of them that accepts the
\* data and parses it successfully gives the result of the call.
C29_Original ==
    call.phase = "done" =>
        \A i, k \in 1..Len(parsers) :
            (i < k /\ CanParseThrew(i) /\ FirstToYield(k)) =>
                /\ \A j \in (i + 1)..k : Occurs(call.log, <<"canParse", parsers[j]>>)
                /\ call.result = ReportOf(parsers[k])

\* ----------------------------------------------------------------- C30
ListedDuration(suite) == Sum(Durations(suite.failed)) + Sum(Durations(suite.passed))

NodeBelowSummary(i) ==
    Flatten([k \in 1..Len(MembersOf(SourceSummaries[i], "tests")) |->
                NodeAndBelow(MembersOf(SourceSummaries[i], "tests")[k])])

\* The durations of the source tests of the i-th suite of the report in
\* output, whatever their status: the descendant Test Case nodes of a Test
\* Suite node, the leaves of a testable summary.
SourceDurations(i) ==
    IF output.parser \in TreeParsers
    THEN LET cases == DescendantCases(OutermostSuites(SourceTestNodes)[i].node)
         IN [k \in 1..Len(cases) |->
                Nullish(Dot(cases[k].node, "durationInSeconds"), Num(0)).n]
    ELSE LET leaves == SelectSeq(NodeBelowSummary(i), BothEmpty)
         IN [k \in 1..Len(leaves) |->
                IF OptPath(leaves[k], <<"duration", "_value">>).t = "number"
                THEN OptPath(leaves[k], <<"duration", "_value">>).n ELSE 0]

====
